---- MODULE Spec2Model ----
(***************************************************************************)
(* A model of the fme-packager validation engine.                          *)
(*                                                                         *)
(* Text is modelled as a sequence of one-character strings, so that        *)
(* prefix tests, stripping, splitting, joining, case folding and version   *)
(* parsing are computed the way the Python code computes them.             *)
(*                                                                         *)
(* Ten specifications share the variables:                                 *)
(*   Spec        FMEPackager.validate_transformer on one transformer file  *)
(*   SpecCompat  is_valid_python_compatibility on one token                *)
(*   SpecFormat  parse_formatinfo on one line, check_formatinfo on a file  *)
(*   SpecBuild   FMEPackager.__init__ followed by FMEPackager.build,       *)
(*               make_fpkg and FMEVerifier.verify                          *)
(*   SpecDialect parse_custom_transformer_header on one header line,       *)
(*               data_processing_types of the three transformer dialects   *)
(*   SpecHelp    get_expected_help_index, HelpBuilder.validate_index,      *)
(*               HelpBuilder.build_index                                   *)
(*   SpecSummary package_deprecated, summarize_fpkg                        *)
(*   SpecName    build_fpkg_filename followed by split_fpkg_filename       *)
(*   SpecSplit   versions() of a legacy or compiled transformer file       *)
(*   SpecScan    _parse_transformer on one transformer text                *)
(***************************************************************************)
EXTENDS Integers, Sequences, FiniteSets, TLC

VARIABLES
    pc,                     \* which call has been made
    metadata,               \* FMEPackager.metadata (the manifest)
    xf_file,                \* the transformer file handed to validate_transformer
    xf_entry,               \* the manifest entry handed to validate_transformer
    outcome,                \* what validate_transformer did: returned or raised
    compat_arg,             \* the argument of is_valid_python_compatibility
    compat,                 \* its result
    info_line,              \* the argument of parse_formatinfo
    formatinfo,             \* its result
    fmt_entry,              \* the manifest entry handed to check_formatinfo
    db_lines,               \* the lines of the .db file read by check_formatinfo
    db_check,               \* what check_formatinfo did
    disk,                   \* the package source directory
    build,                  \* the progress and result of FMEPackager.build
    fpkg,                   \* the archive make_fpkg wrote to the dist directory
    verify_arg,             \* the file argument handed to FMEVerifier
    verdict,                \* what FMEVerifier.verify reported
    header_in,              \* the cells of the header line handed to the header decoder
    decoded,                \* what parse_custom_transformer_header did
    raw_dpt,                \* the raw data-processing-type value a version carries
    dpt,                    \* data_processing_types of the three dialects for it
    visible_as,             \* what get_format_visibility did
    help_dir,               \* the doc folder: its files and its package_help.csv
    directions_arg,         \* the format_directions argument of get_expected_help_index
    help_index,             \* its result
    help_check,             \* what HelpBuilder.validate_index or build_index did
    warned,                 \* the help contexts build_index warned about
    summary_in,             \* the transformers and formats handed to package_deprecated
    deprecated,             \* its result
    summary,                \* the manifest summarize_fpkg assembled
    name_in,                \* the argument of split_fpkg_filename or build_fpkg_filename
    name_out,               \* its result
    fmx_file,               \* the lines of a transformer file whose versions are read
    blocks,                 \* the version blocks versions() yielded
    fmx_text,               \* the lines handed to _parse_transformer
    scan                    \* the position, mode and result of its scan

vars == <<pc, metadata, xf_file, xf_entry, outcome,
          compat_arg, compat, info_line, formatinfo, fmt_entry, db_lines, db_check,
          disk, build, fpkg, verify_arg, verdict, header_in, decoded, raw_dpt, dpt, visible_as,
          help_dir, directions_arg, help_index, help_check, warned,
          summary_in, deprecated, summary, name_in, name_out, fmx_file, blocks,
          fmx_text, scan>>

validateVars == <<xf_file, xf_entry, outcome>>

compatVars == <<compat_arg, compat>>

formatVars == <<info_line, formatinfo, fmt_entry, db_lines, db_check, visible_as>>

buildVars == <<disk, build, fpkg, verify_arg, verdict>>

dialectVars == <<header_in, decoded, raw_dpt, dpt>>

helpVars == <<help_dir, directions_arg, help_index, help_check, warned>>

summaryVars == <<summary_in, deprecated, summary>>

nameVars == <<name_in, name_out>>

splitVars == <<fmx_file, blocks>>

scanVars == <<fmx_text, scan>>

(***************************************************************************)
(* Bounds of the model.                                                    *)
(***************************************************************************)
\* longest list of versions in one transformer file
MaxVersions == 2

\* longest enumerated python-compatibility token
MaxTokLen == 3

\* most fields in an enumerated format-info line
MaxFields == 19

\* most lines in an enumerated .db file
MaxDbLines == 3

\* most transformer entries in an enumerated manifest
MaxEntries == 2

\* the entries of an 'if' array of a conditional data processing type
MaxConds == 2

\* most rows in an enumerated package_help.csv
MaxRows == 3

\* most lines in an enumerated transformer file
MaxLines == 6

\* most lines in an enumerated transformer text
MaxScanLines == 4

(***************************************************************************)
(* Python text primitives.                                                 *)
(***************************************************************************)
\* Python's None, as a value that is no text: every text is a sequence of
\* one-character strings.
None == <<"None">>

Min(S) == CHOOSE x \in S : \A y \in S : x <= y

\* str.startswith
StartsWith(s, prefix) ==
    /\ Len(s) >= Len(prefix)
    /\ SubSeq(s, 1, Len(prefix)) = prefix

\* str.split(sep) for a one-character separator: "".split("|") is [""]
RECURSIVE Split(_, _)
Split(s, sep) ==
    LET hits == {i \in 1..Len(s) : s[i] = sep}
    IN IF hits = {} THEN <<s>>
       ELSE LET i == Min(hits)
            IN <<SubSeq(s, 1, i - 1)>> \o Split(SubSeq(s, i + 1, Len(s)), sep)

\* sep.join(parts)
RECURSIVE Join(_, _)
Join(parts, sep) ==
    IF parts = <<>> THEN <<>>
    ELSE IF Len(parts) = 1 THEN parts[1]
    ELSE parts[1] \o <<sep>> \o Join(Tail(parts), sep)

Whitespace == {" ", "\n", "\t", "\r"}

\* str.strip(): leading and trailing whitespace removed
Strip(s) ==
    LET solid == {i \in 1..Len(s) : s[i] \notin Whitespace}
    IN IF solid = {} THEN <<>>
       ELSE SubSeq(s, Min(solid), CHOOSE j \in solid : \A k \in solid : k <= j)

UpperChar(c) ==
    CASE c = "a" -> "A" [] c = "b" -> "B" [] c = "c" -> "C" [] c = "d" -> "D"
      [] c = "e" -> "E" [] c = "f" -> "F" [] c = "g" -> "G" [] c = "h" -> "H"
      [] c = "i" -> "I" [] c = "j" -> "J" [] c = "k" -> "K" [] c = "l" -> "L"
      [] c = "m" -> "M" [] c = "n" -> "N" [] c = "o" -> "O" [] c = "p" -> "P"
      [] c = "q" -> "Q" [] c = "r" -> "R" [] c = "s" -> "S" [] c = "t" -> "T"
      [] c = "u" -> "U" [] c = "v" -> "V" [] c = "w" -> "W" [] c = "x" -> "X"
      [] c = "y" -> "Y" [] c = "z" -> "Z"
      [] OTHER -> c

LowerChar(c) ==
    CASE c = "A" -> "a" [] c = "B" -> "b" [] c = "C" -> "c" [] c = "D" -> "d"
      [] c = "E" -> "e" [] c = "F" -> "f" [] c = "G" -> "g" [] c = "H" -> "h"
      [] c = "I" -> "i" [] c = "J" -> "j" [] c = "K" -> "k" [] c = "L" -> "l"
      [] c = "M" -> "m" [] c = "N" -> "n" [] c = "O" -> "o" [] c = "P" -> "p"
      [] c = "Q" -> "q" [] c = "R" -> "r" [] c = "S" -> "s" [] c = "T" -> "t"
      [] c = "U" -> "u" [] c = "V" -> "v" [] c = "W" -> "w" [] c = "X" -> "x"
      [] c = "Y" -> "y" [] c = "Z" -> "z"
      [] OTHER -> c

\* str.upper
Upper(s) == [i \in 1..Len(s) |-> UpperChar(s[i])]

\* str.lower
Lower(s) == [i \in 1..Len(s) |-> LowerChar(s[i])]

(***************************************************************************)
(* packaging.version (packaging~=21.0): a text of dot-separated digit runs *)
(* parses to a Version with that release tuple; text that is no PEP 440    *)
(* version parses to a LegacyVersion, which sorts below every Version.     *)
(* The model covers digits, dots and letters that start no PEP 440 suffix. *)
(***************************************************************************)
Digits == {"0", "1", "2", "3", "4", "5", "6", "7", "8", "9"}

DigitValue(c) ==
    CASE c = "0" -> 0 [] c = "1" -> 1 [] c = "2" -> 2 [] c = "3" -> 3
      [] c = "4" -> 4 [] c = "5" -> 5 [] c = "6" -> 6 [] c = "7" -> 7
      [] c = "8" -> 8 [] c = "9" -> 9

RECURSIVE IntOf(_)
IntOf(ds) ==
    IF ds = <<>> THEN 0
    ELSE IntOf(SubSeq(ds, 1, Len(ds) - 1)) * 10 + DigitValue(ds[Len(ds)])

IsRelease(tok) ==
    LET parts == Split(tok, ".")
    IN \A i \in 1..Len(parts) :
          /\ parts[i] # <<>>
          /\ \A j \in 1..Len(parts[i]) : parts[i][j] \in Digits

\* version.parse
VersionParse(tok) ==
    IF IsRelease(tok)
    THEN LET parts == Split(tok, ".")
         IN [legacy |-> FALSE, release |-> [i \in 1..Len(parts) |-> IntOf(parts[i])]]
    ELSE [legacy |-> TRUE, release |-> <<>>]

\* the release part of Version._key: trailing zeros are dropped
RECURSIVE StripTrailingZeros(_)
StripTrailingZeros(r) ==
    IF r # <<>> /\ r[Len(r)] = 0 THEN StripTrailingZeros(SubSeq(r, 1, Len(r) - 1))
    ELSE r

\* Python's ordering of tuples of integers
RECURSIVE TupleLess(_, _)
TupleLess(a, b) ==
    IF b = <<>> THEN FALSE
    ELSE IF a = <<>> THEN TRUE
    ELSE IF a[1] # b[1] THEN a[1] < b[1]
    ELSE TupleLess(Tail(a), Tail(b))

\* a >= b, for b a Version (never a LegacyVersion)
VersionGE(a, b) ==
    IF a.legacy THEN FALSE
    ELSE ~TupleLess(StripTrailingZeros(a.release), StripTrailingZeros(b.release))

minimum_requirement == <<"3", "5">>

\* the same with the floor compared strictly
IsValidStrictFloor(python_compat_version) ==
    IF python_compat_version = None
    THEN [exc |-> "AttributeError", value |-> FALSE]
    ELSE LET is_python_3 == StartsWith(python_compat_version, <<"3">>)
             meets == IF is_python_3
                      THEN /\ VersionGE(VersionParse(python_compat_version),
                                        VersionParse(minimum_requirement))
                           /\ python_compat_version # minimum_requirement
                      ELSE FALSE
         IN [exc |-> "", value |-> is_python_3 /\ meets]

\* is_valid_python_compatibility: value is the boolean returned; exc names the
\* exception raised instead (None has no startswith)
is_valid_python_compatibility(python_compat_version) ==
    IF python_compat_version = None
    THEN [exc |-> "AttributeError", value |-> FALSE]
    ELSE LET is_python_3 == StartsWith(python_compat_version, <<"3">>)
             meets == IF is_python_3
                      THEN VersionGE(VersionParse(python_compat_version),
                                     VersionParse(minimum_requirement))
                      ELSE FALSE
         IN [exc |-> "", value |-> is_python_3 /\ meets]

(***************************************************************************)
(* Transformer files.  A file is its extension, its first line and the     *)
(* versions its dialect's versions() yields, newest first by position.     *)
(* A version carries what validate_transformer reads.  python_compatibility*)
(* is None when the legacy block has no PYTHON_COMPATIBILITY key or the    *)
(* JSON version has no pythonCompatability key; a compiled header always   *)
(* has a pyver text (empty when the field is missing).  insert_mode and    *)
(* build_num exist on compiled headers only.                               *)
(***************************************************************************)
\* load_transformer: the class of the TransformerFile it returns
load_transformer(file) ==
    IF file.ext = "fmx"
    THEN IF StartsWith(file.first_line, <<"#", "!">>)
            \/ StartsWith(file.first_line, <<"F", "M", "W", "0", "0", "0", "1">>)
         THEN "CustomTransformerFmxFile"
         ELSE "FmxFile"
    ELSE IF file.ext = "fmxj" THEN "FmxjFile"
    ELSE "ValueError"

\* isinstance(transformer, CustomTransformer), for a version yielded by a
\* file of class cls
IsCustomTransformer(cls) == cls = "CustomTransformerFmxFile"

LinkedAlways == "\"Linked Always\""

TwoOrThree == <<"2", "o", "r", "3">>

\* what a call did: kind "ok" is a normal return, any other kind is the class
\* of the exception raised; msg is the fixed part of its message, expected,
\* actual and n the values formatted into it
Returned == [kind |-> "ok", msg |-> "", expected |-> <<>>, actual |-> <<>>, n |-> 0]

Raised(kind, msg, expected, actual, n) ==
    [kind |-> kind, msg |-> msg, expected |-> expected, actual |-> actual, n |-> n]

\* the same with the compiled-dialect checks applied to every dialect
CheckVersionAnyDialect(transformer, is_custom, expected_fqname, minimum_fme_build) ==
    IF transformer.version < 1
    THEN Raised("ValueError", "Invalid transformer version", <<>>, <<>>,
                transformer.version)
    ELSE IF transformer.name # expected_fqname
    THEN Raised("ValueError", "Name must be", expected_fqname, transformer.name, 0)
    ELSE IF transformer.insert_mode # LinkedAlways
    THEN Raised("ValueError", "Custom transformer Insert Mode must be",
                <<>>, <<transformer.insert_mode>>, 0)
    ELSE IF transformer.build_num < minimum_fme_build
    THEN Raised("ValueError", "Custom transformer created with FME build older",
                <<>>, <<>>, 0)
    ELSE Returned

\* the body of the loop over all versions
CheckVersion(transformer, is_custom, expected_fqname, minimum_fme_build) ==
    IF transformer.version < 1
    THEN Raised("ValueError", "Invalid transformer version", <<>>, <<>>,
                transformer.version)
    ELSE IF transformer.name # expected_fqname
    THEN Raised("ValueError", "Name must be", expected_fqname, transformer.name, 0)
    ELSE IF is_custom /\ transformer.insert_mode # LinkedAlways
    THEN Raised("ValueError", "Custom transformer Insert Mode must be",
                <<>>, <<transformer.insert_mode>>, 0)
    ELSE IF is_custom /\ transformer.build_num < minimum_fme_build
    THEN Raised("ValueError", "Custom transformer created with FME build older",
                <<>>, <<>>, 0)
    ELSE Returned

\* the same loop cut short after the first version
CheckNewestVersionOnly(transformer_versions, is_custom, expected_fqname, minimum_fme_build) ==
    CheckVersion(transformer_versions[1], is_custom, expected_fqname, minimum_fme_build)

\* the loop over all versions: the first failure in file order, if any
CheckAllVersions(transformer_versions, is_custom, expected_fqname, minimum_fme_build) ==
    LET failing == {i \in 1..Len(transformer_versions) :
                       CheckVersion(transformer_versions[i], is_custom,
                                    expected_fqname, minimum_fme_build).kind # "ok"}
    IN IF failing = {} THEN Returned
       ELSE CheckVersion(transformer_versions[Min(failing)], is_custom,
                         expected_fqname, minimum_fme_build)

\* the same with the numerically highest version taken as the newest
NewestByNumber(transformer_versions) ==
    CHOOSE t \in {transformer_versions[i] : i \in 1..Len(transformer_versions)} :
        \A i \in 1..Len(transformer_versions) : transformer_versions[i].version <= t.version

\* newest_transformer = transformer_versions[0]
NewestTransformer(transformer_versions) == transformer_versions[1]

\* the same with one error class for both dialects
CheckNewestOneError(newest_transformer, is_custom, expected) ==
    IF newest_transformer.version # expected.version
    THEN Raised("ValueError", "Missing version", <<>>, <<>>, expected.version)
    ELSE LET valid == is_valid_python_compatibility(newest_transformer.python_compatibility)
         IN IF valid.exc # "" THEN Raised(valid.exc, "", <<>>, <<>>, 0)
            ELSE IF valid.value THEN Returned
            ELSE IF is_custom /\ newest_transformer.python_compatibility = TwoOrThree
            THEN Returned
            ELSE Raised("TransformerPythonCompatError", "Python compatibility must be >=36.",
                        expected.name, <<>>, 0)

\* the checks on the newest version
CheckNewest(newest_transformer, is_custom, expected) ==
    IF newest_transformer.version # expected.version
    THEN Raised("ValueError", "Missing version", <<>>, <<>>, expected.version)
    ELSE LET valid == is_valid_python_compatibility(newest_transformer.python_compatibility)
         IN IF valid.exc # "" THEN Raised(valid.exc, "", <<>>, <<>>, 0)
            ELSE IF valid.value THEN Returned
            ELSE IF ~is_custom
            THEN Raised("TransformerPythonCompatError", "Python compatibility must be >=36.",
                        expected.name, <<>>, 0)
            ELSE IF newest_transformer.python_compatibility # TwoOrThree
            THEN Raised("CustomTransformerPythonCompatError",
                        "Python compatibility must be '2or3' or >=36.",
                        expected.name, <<>>, 0)
            ELSE Returned

\* "{}.{}.{}".format(publisher_uid, uid, name)
FqName(package, name) == package.publisher_uid \o <<".">> \o package.uid \o <<".">> \o name

\* FMEPackager.validate_transformer
validate_transformer(package, file, expected) ==
    LET cls == load_transformer(file)
        is_custom == IsCustomTransformer(cls)
        expected_fqname == FqName(package, expected.name)
        transformer_versions == file.versions
    IN IF cls = "ValueError"
       THEN Raised("ValueError", "Unrecognized transformer", <<>>, <<>>, 0)
       ELSE IF transformer_versions = <<>>
       THEN Raised("ValueError", "defines no versions", <<>>, <<>>, 0)
       ELSE LET all == CheckAllVersions(transformer_versions, is_custom, expected_fqname,
                                        package.minimum_fme_build)
            IN IF all.kind # "ok" THEN all
               ELSE CheckNewest(NewestTransformer(transformer_versions), is_custom, expected)

(***************************************************************************)
(* Format-info records (operations.py) and their check (packager.py).      *)
(***************************************************************************)
\* FORMATINFO_HDR.split("|")
FORMATINFO_HDR ==
    <<"FORMAT_NAME", "FORMAT_LONG_NAME", "DATASET_TYPE", "DIRECTION",
      "AUTOMATED_TRANSLATION_FLAG", "COORDSYS_AWARE", "FILTER", "FORMAT_TYPE",
      "USE_NATIVE_SPATIAL_INDEX", "SOURCE_SETTINGS", "DESTINATION_SETTINGS", "VISIBLE",
      "MIN_VERSION", "MAX_VERSION", "FORMAT_FAMILY", "HAS_SIDECARS", "MARKETING_FAMILY",
      "FORMAT_CATEGORIES">>

OPTIONAL_FORMATINFO_COLUMNS == <<"FORMAT_CATEGORIES">>

num_columns == Len(FORMATINFO_HDR)

num_required_columns == num_columns - Len(OPTIONAL_FORMATINFO_COLUMNS)

\* FormatInfo(*parts): a namedtuple of num_columns fields whose last field
\* defaults to ""
FormatInfo(parts) ==
    IF Len(parts) = num_columns THEN parts ELSE parts \o <<<<>>>>

DecodeError(actual) ==
    [exc |-> "ValueError", fields |-> <<>>, actual |-> actual, expects |-> num_required_columns]

\* the same accepting every line that has at least the required fields
ParseFormatinfoAtLeast(line) ==
    LET parts == Split(Strip(line), "|")
    IN IF Len(parts) < num_required_columns
       THEN DecodeError(Len(parts))
       ELSE [exc |-> "", fields |-> FormatInfo(SubSeq(parts, 1, Min({Len(parts), num_columns}))),
             actual |-> 0, expects |-> 0]

\* the same without line.strip()
ParseFormatinfoNoStrip(line) ==
    LET parts == Split(line, "|")
    IN IF Len(parts) \notin {num_columns, num_required_columns}
       THEN DecodeError(Len(parts))
       ELSE [exc |-> "", fields |-> FormatInfo(parts), actual |-> 0, expects |-> 0]

\* parse_formatinfo: fields is the FormatInfo returned; exc names the exception
\* raised instead, whose message gives the actual and the expected count
parse_formatinfo(line) ==
    LET parts == Split(Strip(line), "|")
    IN IF Len(parts) \notin {num_columns, num_required_columns}
       THEN DecodeError(Len(parts))
       ELSE [exc |-> "", fields |-> FormatInfo(parts), actual |-> 0, expects |-> 0]

\* FormatInfo.FORMAT_NAME
FORMAT_NAME(fields) == fields[1]

DIRECTION(fields) == fields[4]

VISIBLE(fields) == fields[12]

YES == <<"Y", "E", "S">>

NO == <<"N", "O">>

INPUT == <<"I", "N", "P", "U", "T">>

OUTPUT == <<"O", "U", "T", "P", "U", "T">>

BOTH == <<"B", "O", "T", "H">>

Derived(value) == [exc |-> "ok", value |-> value]

Contradiction == [exc |-> "ValueError", value |-> <<>>]

\* get_format_visibility(formatinfo) with INPUT/OUTPUT and OUTPUT/INPUT let
\* through as the direction's letter
GetFormatVisibilityByDirection(format_info) ==
    LET direction == DIRECTION(format_info)
        visible == VISIBLE(format_info)
    IN IF visible = NO THEN Derived(<<>>)
       ELSE IF direction = BOTH /\ visible = YES THEN Derived(<<"r", "w">>)
       ELSE IF direction = BOTH /\ visible = INPUT THEN Derived(<<"r">>)
       ELSE IF direction = BOTH /\ visible = OUTPUT THEN Derived(<<"w">>)
       ELSE IF direction = INPUT /\ visible \in {YES, INPUT, OUTPUT} THEN Derived(<<"r">>)
       ELSE IF direction = OUTPUT /\ visible \in {YES, INPUT, OUTPUT} THEN Derived(<<"w">>)
       ELSE Contradiction

\* get_format_visibility(formatinfo): the letters of the directions in
\* which the format is shown, or the ValueError of a contradictory pair
get_format_visibility(format_info) ==
    LET direction == DIRECTION(format_info)
        visible == VISIBLE(format_info)
    IN IF visible = NO THEN Derived(<<>>)
       ELSE IF direction = BOTH /\ visible = YES THEN Derived(<<"r", "w">>)
       ELSE IF direction = BOTH /\ visible = INPUT THEN Derived(<<"r">>)
       ELSE IF direction = BOTH /\ visible = OUTPUT THEN Derived(<<"w">>)
       ELSE IF direction = INPUT /\ visible \in {YES, INPUT} THEN Derived(<<"r">>)
       ELSE IF direction = OUTPUT /\ visible \in {YES, OUTPUT} THEN Derived(<<"w">>)
       ELSE Contradiction

\* fq_format_short_name
fq_format_short_name(publisher_uid, package_uid, format_name) ==
    Upper(publisher_uid \o <<".">> \o package_uid \o <<".">> \o format_name)

\* the loop of check_formatinfo over the file's lines: line is rebound to
\* every line read, a comment line included, so the loop ends with the last
\* line of the file, or None for a file without lines
LastLineRead(lines) == IF lines = <<>> THEN None ELSE lines[Len(lines)]

\* check_formatinfo
check_formatinfo(package, format_metadata, lines) ==
    LET last == LastLineRead(lines)
    IN IF last = None \/ last = <<>>
       THEN Raised("ValueError", "empty", <<>>, <<>>, 0)
       ELSE LET fqname == fq_format_short_name(package.publisher_uid, package.uid,
                                               format_metadata.name)
                parsed == parse_formatinfo(last)
            IN IF parsed.exc # ""
               THEN Raised(parsed.exc, "FormatInfo has", <<>>, <<>>, parsed.actual)
               ELSE IF FORMAT_NAME(parsed.fields) # fqname
               THEN Raised("ValueError", "must have FORMAT_NAME of", fqname, <<>>, 0)
               ELSE Returned

(***************************************************************************)
(* FMEPackager.__init__ and FMEPackager.build.  The package directory is   *)
(* modelled with its required files, its transformers folder (per          *)
(* transformer name, whether <name>.md exists and the <name>.fmx file, if  *)
(* any) and its formats folder (per format name, whether <name>.md and     *)
(* <name>.fms exist, and the <name>.fmf and <name>.db files, if any).  It  *)
(* holds no icon, transformer .fms, web services, web filesystems,         *)
(* localization, help or python folder, so those build steps copy nothing. *)
(* The transformer and format names of the model differ, so a path of the  *)
(* build directory is told by its name and extension.                      *)
(***************************************************************************)
\* sub in s
Contains(s, sub) ==
    \E i \in 0..(Len(s) - Len(sub)) : SubSeq(s, i + 1, i + Len(sub)) = sub

\* check_fmf
check_fmf(package, format_metadata, contents) ==
    LET fqname == fq_format_short_name(package.publisher_uid, package.uid,
                                       format_metadata.name)
    IN IF \/ ~Contains(contents, <<"S", "O", "U", "R", "C", "E", "_", "R", "E", "A", "D", "E", "R", " ">> \o fqname)
          \/ ~Contains(contents, <<"F", "O", "R", "M", "A", "T", "_", "N", "A", "M", "E", " ">> \o fqname)
       THEN Raised("ValueError", "SOURCE_READER and FORMAT_NAME must be", fqname, <<>>, 0)
       ELSE Returned

\* jsonschema.validate against spec.json: the uniqueItems rule of a component
\* list refuses two equal entries
SchemaValidate(package) ==
    IF \/ \E i, j \in 1..Len(package.transformers) :
             i # j /\ package.transformers[i] = package.transformers[j]
       \/ \E i, j \in 1..Len(package.formats) :
             i # j /\ package.formats[i] = package.formats[j]
    THEN Raised("ValidationError", "has non-unique elements", <<>>, <<>>, 0)
    ELSE Returned

\* FMEPackager.__init__: the manifest is loaded and schema-validated
FMEPackagerInit(package) == SchemaValidate(package)

\* a file of the build directory or of the source directory
PathOf(name, ext) == <<name, ext>>

\* the loop of _copy_transformers over the manifest's remaining entries
RECURSIVE CopyTransformerEntries(_, _, _, _)
CopyTransformerEntries(package, src, entries, acc) ==
    IF entries = <<>> THEN acc
    ELSE LET transformer == Head(entries)
             found == src.transformers[transformer.name]
         IN IF transformer.version < 1
            THEN [acc EXCEPT !.error = Raised("ValueError", "version must be >= 1",
                                              <<>>, transformer.name, 0)]
            ELSE IF ~found.doc
            THEN [acc EXCEPT !.error = Raised("ValueError", "is missing doc",
                                              <<>>, transformer.name, 0)]
            ELSE IF found.fmx = [ext |-> "", first_line |-> <<>>, versions |-> <<>>]
            THEN [acc EXCEPT !.error = Raised("ValueError", "is in metadata, but was not found",
                                              <<>>, transformer.name, 0)]
            ELSE LET checked == validate_transformer(package, found.fmx, transformer)
                     opened == Append(acc.files_read, PathOf(transformer.name, "fmx"))
                 IN IF checked.kind # "ok"
                    THEN [acc EXCEPT !.error = checked, !.files_read = opened]
                    ELSE CopyTransformerEntries(package, src, Tail(entries),
                             [acc EXCEPT !.files_read = opened,
                                         !.copied = @ \cup {PathOf(transformer.name, "fmx")}])

\* _copy_transformers: the tree copy brings every doc over, then each manifest
\* entry is checked and its .fmx validated and copied
CopyTransformers(package, src, acc) ==
    CopyTransformerEntries(package, src, package.transformers,
        [acc EXCEPT !.copied = @ \cup {PathOf(name, "md") :
                                         name \in {n \in DOMAIN src.transformers :
                                                      src.transformers[n].doc}}])

\* the loop of _copy_formats over the manifest's remaining entries
RECURSIVE CopyFormatEntries(_, _, _, _)
CopyFormatEntries(package, src, entries, acc) ==
    IF entries = <<>> THEN acc
    ELSE LET fmt == Head(entries)
             found == src.formats[fmt.name]
             with_fms == IF found.fms THEN acc.copied \cup {PathOf(fmt.name, "fms")}
                         ELSE acc.copied
         IN IF ~found.doc
            THEN [acc EXCEPT !.error = Raised("ValueError", "is missing doc",
                                              <<>>, fmt.name, 0)]
            ELSE IF ~found.fmf.exists
            THEN [acc EXCEPT !.error = Raised("ValueError", "is in metadata, but was not found",
                                              <<>>, fmt.name, 0),
                             !.copied = with_fms]
            ELSE LET fmf_checked == check_fmf(package, fmt, found.fmf.contents)
                     fmf_opened == Append(acc.files_read, PathOf(fmt.name, "fmf"))
                     with_fmf == with_fms \cup {PathOf(fmt.name, "fmf")}
                 IN IF fmf_checked.kind # "ok"
                    THEN [acc EXCEPT !.error = fmf_checked, !.files_read = fmf_opened,
                                     !.copied = with_fms]
                    ELSE IF ~found.db.exists
                    THEN [acc EXCEPT !.error = Raised("ValueError",
                                                      "is in metadata, but was not found",
                                                      <<>>, fmt.name, 0),
                                     !.files_read = fmf_opened, !.copied = with_fmf]
                    ELSE LET db_checked == check_formatinfo(package, fmt, found.db.lines)
                             db_opened == Append(fmf_opened, PathOf(fmt.name, "db"))
                         IN IF db_checked.kind # "ok"
                            THEN [acc EXCEPT !.error = db_checked, !.files_read = db_opened,
                                             !.copied = with_fmf]
                            ELSE CopyFormatEntries(package, src, Tail(entries),
                                     [acc EXCEPT !.files_read = db_opened,
                                                 !.copied = with_fmf
                                                     \cup {PathOf(fmt.name, "db")}])

\* _copy_formats without the checks: every declared format's files are
\* copied
CopyFormatsUnchecked(package, src, acc) ==
    [acc EXCEPT !.copied = @ \cup {PathOf(name, "md") :
                                     name \in {n \in DOMAIN src.formats : src.formats[n].doc}}
                             \cup {PathOf(package.formats[i].name, "fmf") :
                                     i \in {j \in 1..Len(package.formats) :
                                               src.formats[package.formats[j].name].fmf.exists}}
                             \cup {PathOf(package.formats[i].name, "db") :
                                     i \in {j \in 1..Len(package.formats) :
                                               src.formats[package.formats[j].name].db.exists}}]

\* _copy_formats: the tree copy brings every doc over, then each manifest
\* entry is checked, its .fms copied, its .fmf checked and copied, its .db
\* checked and copied
CopyFormats(package, src, acc) ==
    CopyFormatEntries(package, src, package.formats,
        [acc EXCEPT !.copied = @ \cup {PathOf(name, "md") :
                                         name \in {n \in DOMAIN src.formats :
                                                      src.formats[n].doc}}])

\* FMEPackager.build that clears the build directory when a step raises
FMEPackagerBuildRollback(package, src) ==
    LET cleared == [error |-> Returned, files_read |-> <<>>, copied |-> {}]
        required == [cleared EXCEPT !.copied = {PathOf(<<>>, "package.yml"),
                                                PathOf(<<>>, "README.md"),
                                                PathOf(<<>>, "CHANGES.md")}]
        transformers == CopyTransformers(package, src, required)
        formats == CopyFormats(package, src, transformers)
    IN IF ~src.required
       THEN [cleared EXCEPT !.error = Raised("ValueError", "is required but does not exist",
                                             <<>>, <<>>, 0)]
       ELSE IF transformers.error.kind # "ok" THEN [transformers EXCEPT !.copied = {}]
       ELSE IF formats.error.kind # "ok" THEN [formats EXCEPT !.copied = {}]
       ELSE formats

\* FMEPackager.build
FMEPackagerBuild(package, src) ==
    LET cleared == [error |-> Returned, files_read |-> <<>>, copied |-> {}]
        required == [cleared EXCEPT !.copied = {PathOf(<<>>, "package.yml"),
                                                PathOf(<<>>, "README.md"),
                                                PathOf(<<>>, "CHANGES.md")}]
        transformers == CopyTransformers(package, src, required)
    IN IF ~src.required
       THEN [cleared EXCEPT !.error = Raised("ValueError", "is required but does not exist",
                                             <<>>, <<>>, 0)]
       ELSE IF transformers.error.kind # "ok" THEN transformers
       ELSE CopyFormats(package, src, transformers)

\* FMEPackager(*arguments): __init__ takes the source directory and nothing
\* else (packager.py:162)
FMEPackagerCall(arguments, package) ==
    IF Len(arguments) # 1
    THEN Raised("TypeError", "__init__() takes 2 positional arguments but were given",
                <<>>, <<>>, Len(arguments) + 1)
    ELSE FMEPackagerInit(package)

\* make_fpkg: the archive holds the build directory
make_fpkg(built) == [made |-> TRUE, members |-> built.copied]

\* str.endswith(suffix)
EndsWith(s, suffix) ==
    /\ Len(s) >= Len(suffix)
    /\ SubSeq(s, Len(s) - Len(suffix) + 1, Len(s)) = suffix

\* the file argument of FMEVerifier: a path as a str, or an open file
\* object, which has a name
PathArgument(name) == [kind |-> "str", name |-> name]

FileArgument(name) == [kind |-> "file", name |-> name]

\* shutil.unpack_archive: the package directory the archive unpacks to; a
\* member holds what the source file held
Unpacked(archive, src) ==
    [required |-> {PathOf(<<>>, "package.yml"), PathOf(<<>>, "README.md"),
                   PathOf(<<>>, "CHANGES.md")} \subseteq archive.members,
     transformers |-> [name \in DOMAIN src.transformers |->
        [doc |-> PathOf(name, "md") \in archive.members,
         fmx |-> IF PathOf(name, "fmx") \in archive.members
                 THEN src.transformers[name].fmx
                 ELSE [ext |-> "", first_line |-> <<>>, versions |-> <<>>]]],
     formats |-> [name \in DOMAIN src.formats |->
        [doc |-> PathOf(name, "md") \in archive.members,
         fms |-> PathOf(name, "fms") \in archive.members,
         fmf |-> IF PathOf(name, "fmf") \in archive.members
                 THEN src.formats[name].fmf
                 ELSE [exists |-> FALSE, contents |-> <<>>],
         db |-> IF PathOf(name, "db") \in archive.members
                THEN src.formats[name].db
                ELSE [exists |-> FALSE, lines |-> <<>>]]]]

\* FMEVerifier._unzip_and_build
unzip_and_build(file, verbose, archive, package, src) ==
    IF file.kind = "str"
    THEN Raised("AttributeError", "'str' object has no attribute 'name'", <<>>, <<>>, 0)
    ELSE IF ~EndsWith(Lower(file.name), <<".", "f", "p", "k", "g">>)
    THEN Raised("ValueError", "The file must have a .fpkg extension", <<>>, <<>>, 0)
    ELSE LET steps == FMEPackagerCall(<<"temp_dir", verbose>>, package)
         IN IF steps.kind # "ok" THEN steps
            ELSE FMEPackagerBuild(package, Unpacked(archive, src)).error

\* FMEVerifier.verify: every exception becomes an error report
verify(file, verbose, archive, package, src) ==
    LET raised == unzip_and_build(file, verbose, archive, package, src)
    IN [done |-> TRUE, success |-> raised.kind = "ok", cause |-> raised]

(***************************************************************************)
(* Transformer dialect decoders (transformer.py): the compiled header      *)
(* line, and data_processing_types of the three dialects.                  *)
(*                                                                         *)
(* A Python value that json.loads can produce is a record: a str, an int,  *)
(* True, False, None, a list or a dict (its members in order).  The lists  *)
(* data_processing_types returns hold such values.                         *)
(***************************************************************************)
JsonStr(s) == [kind |-> "str", s |-> s]

JsonNum(n) == [kind |-> "num", n |-> n]

JsonTrue == [kind |-> "true"]

JsonFalse == [kind |-> "false"]

JsonNull == [kind |-> "null"]

JsonList(items) == [kind |-> "list", items |-> items]

JsonObject(members) == [kind |-> "obj", members |-> members]

Member(key, value) == [key |-> key, value |-> value]

\* bool(value)
Truthy(v) ==
    CASE v.kind = "str" -> v.s # <<>>
      [] v.kind = "num" -> v.n # 0
      [] v.kind = "true" -> TRUE
      [] v.kind = "list" -> v.items # <<>>
      [] v.kind = "obj" -> v.members # <<>>
      [] OTHER -> FALSE

\* dict.get(key): the value of the member with that key, None without one
DictGet(obj, key) ==
    LET at == {i \in 1..Len(obj.members) : obj.members[i].key = key}
    IN IF at = {} THEN JsonNull
       ELSE obj.members[CHOOSE i \in at : \A j \in at : j <= i].value

\* dict.get(key, default)
DictGetOr(obj, key, default) ==
    IF \E i \in 1..Len(obj.members) : obj.members[i].key = key
    THEN DictGet(obj, key) ELSE default

KeyText(key) ==
    CASE key = "if" -> <<"i", "f">>
      [] key = "then" -> <<"t", "h", "e", "n">>
      [] key = "default" -> <<"d", "e", "f", "a", "u", "l", "t">>

DigitText(n) ==
    CASE n = 0 -> <<"0">> [] n = 1 -> <<"1">> [] n = 2 -> <<"2">> [] n = 3 -> <<"3">>
      [] n = 4 -> <<"4">> [] n = 5 -> <<"5">> [] n = 6 -> <<"6">> [] n = 7 -> <<"7">>
      [] n = 8 -> <<"8">> [] n = 9 -> <<"9">>

\* the compact JSON text of a value whose strings need no escape
RECURSIVE JsonText(_)
JsonText(v) ==
    CASE v.kind = "str" -> <<"\"">> \o v.s \o <<"\"">>
      [] v.kind = "num" -> DigitText(v.n)
      [] v.kind = "true" -> <<"t", "r", "u", "e">>
      [] v.kind = "false" -> <<"f", "a", "l", "s", "e">>
      [] v.kind = "null" -> <<"n", "u", "l", "l">>
      [] v.kind = "list" ->
            <<"[">> \o Join([i \in 1..Len(v.items) |-> JsonText(v.items[i])], ",") \o <<"]">>
      [] v.kind = "obj" ->
            <<"{">>
            \o Join([i \in 1..Len(v.members) |->
                        <<"\"">> \o KeyText(v.members[i].key) \o <<"\"", ":">>
                        \o JsonText(v.members[i].value)], ",")
            \o <<"}">>

Source == <<"s", "o", "u", "r", "c", "e">>

Destination == <<"d", "e", "s", "t", "i", "n", "a", "t", "i", "o", "n">>

Both == <<"b", "o", "t", "h">>

\* the values a 'then' or 'default' member holds
ThenValues == {JsonStr(Source), JsonStr(Destination), JsonStr(<<>>)}

DefaultValues == {JsonStr(Source), JsonStr(Destination), JsonNull}

\* the entries of an 'if' array: with or without a 'then' member
Conditions ==
    {JsonObject(<<>>)} \cup {JsonObject(<<Member("then", t)>>) : t \in ThenValues}

\* the conditional objects: 'if' and 'default' are each present or not
ConditionalObjects ==
    LET ifs == {<<>>} \cup {<<Member("if", JsonList(c))>> :
                               c \in UNION {[1..n -> Conditions] : n \in 0..MaxConds}}
        defaults == {<<>>} \cup {<<Member("default", d)>> : d \in DefaultValues}
    IN {JsonObject(i \o d) : i \in ifs, d \in defaults}

\* the JSON values of the model
JsonValues ==
    {JsonStr(Source), JsonStr(Destination), JsonStr(Both), JsonStr(<<>>),
     JsonNum(0), JsonNum(5), JsonTrue, JsonFalse, JsonNull,
     JsonList(<<>>), JsonList(<<JsonStr(Source)>>)}
    \cup ConditionalObjects

\* json.loads(text): the value whose JSON text it is; JSONDecodeError for a
\* text that is no JSON
json_loads(text) ==
    LET parsed == {v \in JsonValues : JsonText(v) = text}
    IN IF parsed = {} THEN [exc |-> "JSONDecodeError", value |-> JsonNull]
       ELSE [exc |-> "ok", value |-> CHOOSE v \in parsed : TRUE]

\* the characters of the model in code point order
CodePoints ==
    <<" ", "\"", "#", ",", "-", ".", "0", "1", "2", "3", "4", "5", "6", "7", "8", "9",
      ":", "A", "B", "C", "D", "E", "F", "G", "H", "I", "J", "K", "L", "M", "N", "O",
      "P", "Q", "R", "S", "T", "U", "V", "W", "X", "Y", "Z", "[", "]", "_", "a", "b",
      "c", "d", "e", "f", "g", "h", "i", "j", "k", "l", "m", "n", "o", "p", "q", "r",
      "s", "t", "u", "v", "w", "x", "y", "z", "{", "}">>

ord(c) == CHOOSE i \in 1..Len(CodePoints) : CodePoints[i] = c

\* a < b for str
RECURSIVE TextLess(_, _)
TextLess(a, b) ==
    IF b = <<>> THEN FALSE
    ELSE IF a = <<>> THEN TRUE
    ELSE IF a[1] # b[1] THEN ord(a[1]) < ord(b[1])
    ELSE TextLess(Tail(a), Tail(b))

\* sorted(list(types)) for a set of str
RECURSIVE Sorted(_)
Sorted(types) ==
    IF types = {} THEN <<>>
    ELSE LET least == CHOOSE t \in types : \A u \in types \ {t} : TextLess(t.s, u.s)
         IN <<least>> \o Sorted(types \ {least})

\* the shared body of the dict case: every truthy 'then' of the 'if' entries
\* and the truthy 'default', as a sorted list
ConditionalTypesWithoutThen(data_processing_type) ==
    LET default_value == DictGet(data_processing_type, "default")
    IN Sorted(IF Truthy(default_value) THEN {default_value} ELSE {})

ConditionalTypes(data_processing_type) ==
    LET if_conditions == DictGetOr(data_processing_type, "if", JsonList(<<>>)).items
        thens == {DictGet(if_conditions[i], "then") : i \in 1..Len(if_conditions)}
        default_value == DictGet(data_processing_type, "default")
    IN Sorted({t \in thens : Truthy(t)}
              \cup (IF Truthy(default_value) THEN {default_value} ELSE {}))

\* FmxTransformer.data_processing_types, from props.get("DATA_PROCESSING_TYPE")
FmxDataProcessingTypes(prop) ==
    IF prop = None \/ prop = <<>> THEN <<>>
    ELSE LET text == Strip(prop)
             loaded == json_loads(text)
         IN IF loaded.exc # "ok" THEN <<JsonStr(text)>>
            ELSE IF loaded.value.kind = "obj" THEN ConditionalTypes(loaded.value)
            ELSE IF loaded.value.kind = "str" THEN <<loaded.value>>
            ELSE <<loaded.value>>

\* FmxjTransformer.data_processing_types, from json_def.get("dataProcessingType")
FmxjDataProcessingTypes(data_processing_type) ==
    IF ~Truthy(data_processing_type) THEN <<>>
    ELSE IF data_processing_type.kind = "str" THEN <<data_processing_type>>
    ELSE IF data_processing_type.kind = "obj" THEN ConditionalTypes(data_processing_type)
    ELSE <<>>

TRANSFORMER_BEGIN ==
    <<"#", " ", "T", "R", "A", "N", "S", "F", "O", "R", "M", "E", "R", "_",
      "B", "E", "G", "I", "N">>

\* str.replace(old, ""): every occurrence of old removed, left to right
RECURSIVE Remove(_, _)
Remove(s, old) ==
    LET hits == {i \in 1..(Len(s) - Len(old) + 1) : SubSeq(s, i, i + Len(old) - 1) = old}
    IN IF hits = {} THEN s
       ELSE LET i == Min(hits)
            IN SubSeq(s, 1, i - 1) \o Remove(SubSeq(s, i + Len(old), Len(s)), old)

\* NamedTransformerHeader._fields
NamedTransformerHeaderFields ==
    <<"name", "version", "category", "guid", "insert_mode", "blocked_looping",
      "process_count", "process_group_by", "process_groups_ordered", "build_num",
      "preserves_attrs", "deprecated", "pyver", "preserve_group_attr", "replaced_by",
      "data_processing_type">>

num_fields_expected == Len(NamedTransformerHeaderFields)

\* whether int(text) succeeds: a run of digits, whitespace around it ignored
IsInt(text) ==
    /\ Strip(text) # <<>>
    /\ \A i \in 1..Len(Strip(text)) : Strip(text)[i] \in Digits

int(text) == IntOf(Strip(text))

\* NamedTransformerHeader(*fields[:num_fields_expected])
NamedTransformerHeader(fields) ==
    [name |-> fields[1], version |-> fields[2], category |-> fields[3],
     guid |-> fields[4], insert_mode |-> fields[5], blocked_looping |-> fields[6],
     process_count |-> fields[7], process_group_by |-> fields[8],
     process_groups_ordered |-> fields[9], build_num |-> fields[10],
     preserves_attrs |-> fields[11], deprecated |-> fields[12], pyver |-> fields[13],
     preserve_group_attr |-> fields[14], replaced_by |-> fields[15],
     data_processing_type |-> fields[16]]

NoHeader == NamedTransformerHeader([i \in 1..16 |-> <<>>])

HeaderFields(line) ==
    LET fields == Split(Strip(Remove(line, TRANSFORMER_BEGIN)), ",")
    IN IF Len(fields) < num_fields_expected
       THEN fields \o [i \in 1..(num_fields_expected - Len(fields)) |-> <<>>]
       ELSE fields

\* parse_custom_transformer_header(line): the header, or the ValueError of
\* int() on a version or build_num that is no number
parse_custom_transformer_header(line) ==
    LET header == NamedTransformerHeader(HeaderFields(line))
    IN IF ~IsInt(header.version) \/ ~IsInt(header.build_num)
       THEN [exc |-> "ValueError", header |-> NoHeader]
       ELSE [exc |-> "ok",
             header |-> [header EXCEPT
                 !.version = int(header.version),
                 !.build_num = int(header.build_num),
                 !.data_processing_type =
                     IF header.data_processing_type = <<>> THEN <<>>
                     ELSE <<JsonStr(header.data_processing_type)>>]]

\* CustomTransformer._split_prop(property_name, ","), on the header's text
split_prop(text) ==
    IF text = <<>> THEN <<>>
    ELSE LET parts == Split(text, ",") IN [i \in 1..Len(parts) |-> Strip(parts[i])]

\* CustomTransformer.categories
CustomCategories(header) == split_prop(header.category)

\* CustomTransformer.data_processing_types
CustomDataProcessingTypes(header) == header.data_processing_type

(***************************************************************************)
(* The help index (help.py).  A dict is the set of its <<key, value>>      *)
(* items.  The doc folder is a tree of names: a path is its segments from  *)
(* the doc root, Up standing for the root's parent.                        *)
(***************************************************************************)
\* dict[key] = value
Assign(index, key, value) == {item \in index : item[1] # key} \cup {<<key, value>>}

RECURSIVE AssignAll(_, _)
AssignAll(index, items) ==
    IF items = <<>> THEN index
    ELSE AssignAll(Assign(index, items[1][1], items[1][2]), Tail(items))

Keys(index) == {item[1] : item \in index}

\* f"{fpkg_metadata.publisher_uid}_{fpkg_metadata.uid}"
fpkg_ident(fpkg_metadata) == fpkg_metadata.publisher_uid \o <<"_">> \o fpkg_metadata.uid

\* the item of one transformer
TransformerTopic(ident, xformer) ==
    <<<<"f", "m", "x", "_">> \o ident \o <<"_">> \o xformer.name, <<"/">> \o xformer.name \o <<".", "h", "t", "m">>>>

\* the items of one direction letter of a format
DirectionTopics(fmt_ident, fmt, direction) ==
    <<<<<<"p", "a", "r", "a", "m", "_">> \o fmt_ident \o <<"_", direction>>,
        <<"/">> \o fmt.name \o <<"_", "p", "a", "r", "a", "m", "_">> \o <<direction>> \o <<".", "h", "t", "m">>>>,
      <<<<"f", "t", "_">> \o fmt_ident \o <<"_", "p", "a", "r", "a", "m", "_">> \o <<direction>>,
        <<"/">> \o fmt.name \o <<"_", "f", "t", "_", "p", "a", "r", "a", "m", "_">> \o <<direction>> \o <<".", "h", "t", "m">>>>>>

RECURSIVE AllDirectionTopics(_, _, _)
AllDirectionTopics(fmt_ident, fmt, directions) ==
    IF directions = <<>> THEN <<>>
    ELSE DirectionTopics(fmt_ident, fmt, directions[1])
         \o AllDirectionTopics(fmt_ident, fmt, Tail(directions))

\* format_directions.get(fmt.name, "rw")
DirectionsOf(format_directions, fmt) ==
    IF \E item \in format_directions : item[1] = fmt.name
    THEN (CHOOSE item \in format_directions : item[1] = fmt.name)[2]
    ELSE <<"r", "w">>

\* the same with every format taken as read and write
FormatTopicsBothWays(ident, fmt, format_directions) ==
    LET fmt_ident == Lower(ident \o <<"_">> \o fmt.name)
    IN <<<<<<"r", "w", "_">> \o fmt_ident \o <<"_", "i", "n", "d", "e", "x">>, <<"/">> \o fmt.name \o <<".", "h", "t", "m">>>>,
         <<<<"r", "w", "_">> \o fmt_ident \o <<"_", "f", "e", "a", "t", "u", "r", "e", "_", "r", "e", "p">>,
           <<"/">> \o fmt.name \o <<"_", "f", "e", "a", "t", "u", "r", "e", "_", "r", "e", "p", ".", "h", "t", "m">>>>>>
       \o AllDirectionTopics(fmt_ident, fmt, <<"r", "w">>)
       \o <<<<<<"f", "t", "_">> \o fmt_ident \o <<"_", "u", "s", "e", "r", "_", "a", "t", "t", "r">>,
              <<"/">> \o fmt.name \o <<"_", "f", "t", "_", "u", "s", "e", "r", "_", "a", "t", "t", "r", ".", "h", "t", "m">>>>>>

\* the items of one format, in the order they are assigned
FormatTopics(ident, fmt, format_directions) ==
    LET fmt_ident == Lower(ident \o <<"_">> \o fmt.name)
        directions == DirectionsOf(format_directions, fmt)
    IN <<<<<<"r", "w", "_">> \o fmt_ident \o <<"_", "i", "n", "d", "e", "x">>, <<"/">> \o fmt.name \o <<".", "h", "t", "m">>>>,
         <<<<"r", "w", "_">> \o fmt_ident \o <<"_", "f", "e", "a", "t", "u", "r", "e", "_", "r", "e", "p">>,
           <<"/">> \o fmt.name \o <<"_", "f", "e", "a", "t", "u", "r", "e", "_", "r", "e", "p", ".", "h", "t", "m">>>>>>
       \o AllDirectionTopics(fmt_ident, fmt, directions)
       \o <<<<<<"f", "t", "_">> \o fmt_ident \o <<"_", "u", "s", "e", "r", "_", "a", "t", "t", "r">>,
              <<"/">> \o fmt.name \o <<"_", "f", "t", "_", "u", "s", "e", "r", "_", "a", "t", "t", "r", ".", "h", "t", "m">>>>>>

RECURSIVE AllFormatTopics(_, _, _)
AllFormatTopics(ident, formats, format_directions) ==
    IF formats = <<>> THEN <<>>
    ELSE FormatTopics(ident, formats[1], format_directions)
         \o AllFormatTopics(ident, Tail(formats), format_directions)

\* get_expected_help_index(fpkg_metadata, format_directions); no
\* format_directions, or None, is the empty dict
get_expected_help_index(fpkg_metadata, format_directions) ==
    LET given == format_directions
        ident == fpkg_ident(fpkg_metadata)
        xformers == fpkg_metadata.transformers
    IN AssignAll({},
           [i \in 1..Len(xformers) |-> TransformerTopic(ident, xformers[i])]
           \o AllFormatTopics(ident, fpkg_metadata.formats, given))

\* the parent of the doc root
Up == <<".", ".">>

\* the entries of the doc tree: [path, dir]; the doc root and its parent
\* are directories
IsDir(tree, path) ==
    \/ path \in {<<>>, <<Up>>}
    \/ [path |-> path, dir |-> TRUE] \in tree

Exists(tree, path) ==
    IsDir(tree, path) \/ [path |-> path, dir |-> FALSE] \in tree

Parent(path) ==
    IF path = <<>> \/ path = <<Up>> THEN <<Up>>
    ELSE SubSeq(path, 1, Len(path) - 1)

\* str.lstrip("/")
LStripSlash(s) ==
    LET solid == {i \in 1..Len(s) : s[i] # "/"}
    IN IF solid = {} THEN <<>> ELSE SubSeq(s, Min(solid), Len(s))

\* the parts of Path(doc_dir) / text below doc_dir: empty and '.' segments
\* are dropped, '..' segments are kept
Parts(text) ==
    LET segments == Split(text, "/")
    IN SelectSeq(segments, LAMBDA seg : seg \notin {<<>>, <<".">>})

\* where the operating system arrives walking the parts from a directory:
\* every step but the last is taken from an existing directory
RECURSIVE Walk(_, _, _)
Walk(tree, at, parts) ==
    IF parts = <<>> THEN [found |-> Exists(tree, at), at |-> at]
    ELSE IF ~IsDir(tree, at) THEN [found |-> FALSE, at |-> at]
    ELSE IF parts[1] = Up THEN Walk(tree, Parent(at), Tail(parts))
    ELSE Walk(tree, at \o <<parts[1]>>, Tail(parts))

\* Path.suffix[1:].lower() of the path's last part; the doc root's own name
\* has no suffix
SuffixLower(parts) ==
    IF parts = <<>> THEN <<>>
    ELSE LET name == parts[Len(parts)]
             dots == {i \in 1..Len(name) : name[i] = "."}
             last == CHOOSE i \in dots : \A j \in dots : j <= i
         IN IF dots = {} \/ last = 1 \/ last = Len(name) THEN <<>>
            ELSE Lower(SubSeq(name, last + 1, Len(name)))

\* the first build whose help index may name an external URL without a
\* local fallback
MIN_BUILD_WITH_URL_SUPPORT == 3

HelpOk == [kind |-> "ok", msg |-> "", keys |-> {}, path |-> <<>>]

HelpRaised(kind, msg, keys, path) == [kind |-> kind, msg |-> msg, keys |-> keys, path |-> path]

\* links[row[0]] = row[1] for every row: the items in the order their keys
\* first appear, each with the value of its last row
RECURSIVE Links(_, _)
Links(rows, links) ==
    IF rows = <<>> THEN links
    ELSE LET key == rows[1][1]
             at == {i \in 1..Len(links) : links[i][1] = key}
         IN Links(Tail(rows),
                  IF at = {} THEN Append(links, <<key, rows[1][2]>>)
                  ELSE [i \in 1..Len(links) |->
                           IF i \in at THEN <<key, rows[1][2]>> ELSE links[i]])

\* the checks on one item of links
CheckLink(tree, doc_path) ==
    IF ~StartsWith(doc_path, <<"/">>)
    THEN HelpRaised("ValueError", "Path must start with /", {}, doc_path)
    ELSE LET parts == Parts(LStripSlash(doc_path))
         IN IF ~Walk(tree, <<>>, parts).found
            THEN HelpRaised("FileNotFoundError", "does not exist", {}, doc_path)
            ELSE IF SuffixLower(parts) \notin {<<"h", "t", "m">>, <<"h", "t", "m", "l">>, <<"m", "d">>}
            THEN HelpRaised("ValueError", "must be htm(l) or md", {}, doc_path)
            ELSE HelpOk

RECURSIVE CheckLinks(_, _)
CheckLinks(tree, links) ==
    IF links = <<>> THEN HelpOk
    ELSE LET checked == CheckLink(tree, links[1][2])
         IN IF checked.kind # "ok" THEN checked ELSE CheckLinks(tree, Tail(links))

\* Path.is_file() of the path the parts lead to from the doc root
IsFile(tree, parts) ==
    LET arrived == Walk(tree, <<>>, parts)
    IN arrived.found /\ ~IsDir(tree, arrived.at)

\* sorted(keys) for a set of str
RECURSIVE SortedTexts(_)
SortedTexts(texts) ==
    IF texts = {} THEN <<>>
    ELSE LET least == CHOOSE t \in texts : \A u \in texts \ {t} : TextLess(t, u)
         IN <<least>> \o SortedTexts(texts \ {least})

\* what build_index wrote and warned about
Written(rows, warnings) == [rows |-> rows, warnings |-> warnings]

\* the loop of build_index over the sorted contexts
RECURSIVE WriteRows(_, _, _, _)
WriteRows(tree, expected, contexts, acc) ==
    IF contexts = <<>> THEN acc
    ELSE LET context == contexts[1]
             target == (CHOOSE item \in expected : item[1] = context)[2]
             expected_doc == Parts(Tail(target))
         IN WriteRows(tree, expected, Tail(contexts),
                IF ~IsFile(tree, expected_doc)
                THEN Written(acc.rows, Append(acc.warnings, context))
                ELSE Written(Append(acc.rows, <<context, target>>), acc.warnings))

\* build_index writing a row for every expected context
BuildIndexEveryContext(fpkg_metadata, doc_dir) ==
    LET expected == get_expected_help_index(fpkg_metadata, {})
        contexts == SortedTexts(Keys(expected))
    IN Written([i \in 1..Len(contexts) |->
                   <<contexts[i], (CHOOSE item \in expected : item[1] = contexts[i])[2]>>],
               <<>>)

\* HelpBuilder.build_index(doc_dir): the rows written to package_help.csv
\* and the contexts warned about, in order
build_index(fpkg_metadata, doc_dir) ==
    LET expected == get_expected_help_index(fpkg_metadata, {})
    IN WriteRows(doc_dir.tree, expected, SortedTexts(Keys(expected)), Written(<<>>, <<>>))

\* validate_index without the check for missing help contexts
ValidateIndexPresentOnly(fpkg_metadata, doc_dir) ==
    IF \E i \in 1..Len(doc_dir.rows) : Len(doc_dir.rows[i]) < 2
    THEN HelpRaised("IndexError", "Invalid package_help.csv: must have 2 columns", {}, <<>>)
    ELSE LET links == Links(doc_dir.rows, <<>>)
             checked == CheckLinks(doc_dir.tree, links)
             expected == Keys(get_expected_help_index(fpkg_metadata, {}))
             contexts_present == {links[i][1] : i \in 1..Len(links)}
             unrecognized == contexts_present \ expected
         IN IF checked.kind # "ok" THEN checked
            ELSE IF unrecognized # {}
            THEN HelpRaised("ValueError", "Unrecognized help", unrecognized, <<>>)
            ELSE HelpOk

\* HelpBuilder.validate_index(doc_dir); doc_dir holds package_help.csv as
\* the rows csv.reader yields
validate_index(fpkg_metadata, doc_dir) ==
    IF \E i \in 1..Len(doc_dir.rows) : Len(doc_dir.rows[i]) < 2
    THEN HelpRaised("IndexError", "Invalid package_help.csv: must have 2 columns", {}, <<>>)
    ELSE LET links == Links(doc_dir.rows, <<>>)
             checked == CheckLinks(doc_dir.tree, links)
             expected == Keys(get_expected_help_index(fpkg_metadata, {}))
             contexts_present == {links[i][1] : i \in 1..Len(links)}
             unrecognized == contexts_present \ expected
             missing == expected \ contexts_present
         IN IF checked.kind # "ok" THEN checked
            ELSE IF unrecognized # {}
            THEN HelpRaised("ValueError", "Unrecognized help", unrecognized, <<>>)
            ELSE IF missing # {}
            THEN HelpRaised("ValueError", "Missing help", missing, <<>>)
            ELSE HelpOk

(***************************************************************************)
(* The summary of a package (summarizer.py).  A Python dict is a function  *)
(* from its keys: a key the dict lacks is outside its DOMAIN.  Objects     *)
(* that are shared are held in a heap, a function from object names, and   *)
(* referred to by Ref.                                                     *)
(***************************************************************************)
\* dict.get(key, default)
Get(d, key, default) == IF key \in DOMAIN d THEN d[key] ELSE default

\* dict[key] = value
Put(d, key, value) == [k \in DOMAIN d \cup {key} |-> IF k = key THEN value ELSE d[k]]

\* max(versions, key=lambda v: v["version"]): the first of the greatest
Highest(versions) ==
    versions[Min({i \in 1..Len(versions) :
                    \A j \in 1..Len(versions) : versions[j].version <= versions[i].version})]

\* package_deprecated looking at every version of a transformer
PackageDeprecatedAnyVersion(transformers, formats) ==
    IF transformers = <<>> /\ formats = <<>> THEN FALSE
    ELSE LET is_transformer_visible ==
                 \E i \in 1..Len(transformers) :
                    \E k \in 1..Len(Get(transformers[i], "versions", <<>>)) :
                       Get(transformers[i].versions[k], "visible", TRUE)
             is_format_visible ==
                 \E i \in 1..Len(formats) : Get(formats[i], "visible", TRUE)
         IN ~(is_transformer_visible \/ is_format_visible)

\* package_deprecated(transformers, formats)
package_deprecated(transformers, formats) ==
    IF transformers = <<>> /\ formats = <<>> THEN FALSE
    ELSE LET is_transformer_visible ==
                 \E i \in 1..Len(transformers) :
                    /\ Get(transformers[i], "versions", <<>>) # <<>>
                    /\ Get(Highest(transformers[i].versions), "visible", TRUE)
             is_format_visible ==
                 \E i \in 1..Len(formats) : Get(formats[i], "visible", TRUE)
         IN ~(is_transformer_visible \/ is_format_visible)

\* _get_all_categories(transformers, formats)
get_all_categories(transformers, formats) ==
    LET of_transformers ==
            UNION {LET highest_version == Highest(transformers[i].versions)
                   IN {highest_version.categories[k] :
                          k \in 1..Len(highest_version.categories)} :
                   i \in {i \in 1..Len(transformers) :
                             Get(transformers[i], "versions", <<>>) # <<>>}}
        of_formats ==
            UNION {{formats[i].categories[k] : k \in 1..Len(formats[i].categories)} :
                   i \in {i \in 1..Len(formats) : Get(formats[i], "categories", <<>>) # <<>>}}
    IN SortedTexts(of_transformers \cup of_formats)

\* _content_description(readme_filename): None for a readme that cannot be
\* opened
content_description(readme) ==
    IF readme = None THEN [description |-> None, description_format |-> "None"]
    ELSE [description |-> readme, description_format |-> "md"]

\* Summarizer.enhance_transformer_info: one entry per manifest entry, from
\* the versions its file yields and its readme
enhance_transformer_info(base_dir, transformers) ==
    [i \in 1..Len(transformers) |->
        LET tm == transformers[i]
            found == base_dir.transformers[tm.name]
            described == content_description(found.readme)
        IN [name |-> tm.name, latest_version |-> tm.version,
            versions |-> found.versions,
            description |-> described.description,
            description_format |-> described.description_format]]

\* _format_data(format_line)
format_data(format_line) ==
    LET format_info == parse_formatinfo(format_line).fields
    IN [fds_info |-> format_line,
        visible |-> Upper(VISIBLE(format_info)) # NO,
        categories |-> IF format_info[num_columns] # <<>>
                       THEN Split(format_info[num_columns], ",") ELSE <<>>]

\* Summarizer.enhance_format_info: one entry per manifest entry, from the
\* format line of its .db file and its readme
enhance_format_info(base_dir, publisher_uid, uid, formats) ==
    [i \in 1..Len(formats) |->
        LET short_name == formats[i].name
            found == base_dir.formats[short_name]
            described == content_description(found.readme)
            data == format_data(found.format_line)
        IN [short_name |-> short_name,
            name |-> publisher_uid \o <<".">> \o uid \o <<".">> \o short_name,
            description |-> described.description,
            description_format |-> described.description_format,
            fds_info |-> data.fds_info, visible |-> data.visible,
            categories |-> data.categories]]

\* a reference to an object of the heap
Ref(object) == [ref |-> object]

\* load_fpkg_metadata: metadata.dict and, when the manifest has a
\* package_content, the dict that key holds
Loaded(manifest) ==
    IF "package_content" \in DOMAIN manifest
    THEN [dict |-> Put(manifest, "package_content", Ref("content")),
          content |-> manifest.package_content]
    ELSE [dict |-> manifest]

\* the manifest tree metadata.dict holds
Held(heap) ==
    IF "package_content" \in DOMAIN heap.dict
    THEN Put(heap.dict, "package_content", heap[heap.dict.package_content.ref])
    ELSE heap.dict

\* FMEPackageMetadata.package_content: self.dict.get("package_content", {}),
\* the object the key holds, or a new empty dict
PackageContent(heap) ==
    IF "package_content" \in DOMAIN heap.dict
    THEN [heap |-> heap, at |-> heap.dict.package_content]
    ELSE [heap |-> Put(heap, "fresh", <<>>), at |-> Ref("fresh")]

\* FMEPackageMetadata.transformers, .formats, .web_services
ComponentList(heap, key) ==
    LET content == PackageContent(heap) IN Get(content.heap[content.at.ref], key, <<>>)

\* manifest["package_content"][key] = value
PutContent(heap, key, value) ==
    LET at == heap.manifest.package_content.ref
    IN Put(heap, at, Put(heap[at], key, value))

\* summarize_fpkg, up to the schema check of the manifest it assembled:
\* the manifest, and the heap it leaves
summarize_fpkg(loaded, base_dir) ==
    LET copied == Put(loaded, "manifest", loaded.dict)
        content == PackageContent(copied)
        attached == Put(content.heap, "manifest",
                        Put(content.heap.manifest, "package_content", content.at))
        with_transformers ==
            PutContent(attached, "transformers",
                enhance_transformer_info(base_dir, ComponentList(attached, "transformers")))
        with_formats ==
            PutContent(with_transformers, "formats",
                enhance_format_info(base_dir, with_transformers.dict.publisher_uid,
                                    with_transformers.dict.uid,
                                    ComponentList(with_transformers, "formats")))
        \* the manifests of the model declare no web service
        with_services ==
            PutContent(with_formats, "web_services", <<>>)
        described == with_services[with_services.manifest.package_content.ref]
        categorized ==
            Put(with_services, "manifest",
                Put(with_services.manifest, "categories",
                    get_all_categories(described.transformers, described.formats)))
        decided ==
            Put(categorized, "manifest",
                Put(categorized.manifest, "deprecated",
                    package_deprecated(described.transformers, described.formats)))
    IN [manifest |-> Put(decided.manifest, "package_content", described),
        heap |-> decided]

(***************************************************************************)
(* Package file names (operations.py).                                     *)
(***************************************************************************)
\* the first position of sep in s, or 0
FirstAt(s, sep) ==
    LET at == {i \in 1..Len(s) : s[i] = sep}
    IN IF at = {} THEN 0 ELSE Min(at)

\* the last position of sep in s, or 0
LastAt(s, sep) ==
    LET at == {i \in 1..Len(s) : s[i] = sep}
    IN IF at = {} THEN 0 ELSE CHOOSE i \in at : \A j \in at : j <= i

\* s.partition(sep), sep one character: <<before, after>>
Partition(s, sep) ==
    IF FirstAt(s, sep) = 0 THEN <<s, <<>>>>
    ELSE <<SubSeq(s, 1, FirstAt(s, sep) - 1), SubSeq(s, FirstAt(s, sep) + 1, Len(s))>>

\* s.rpartition(sep), sep one character: <<before, after>>
RPartition(s, sep) ==
    IF LastAt(s, sep) = 0 THEN <<<<>>, s>>
    ELSE <<SubSeq(s, 1, LastAt(s, sep) - 1), SubSeq(s, LastAt(s, sep) + 1, Len(s))>>

NoParts == <<<<>>, <<>>, <<>>>>

split_fpkg_filename(filename) ==
    LET name == Partition(filename, ".")[1]
        extension == Partition(filename, ".")[2]
        publisher_uid == Partition(name, ".")[1]
        right == Partition(name, ".")[2]
        package_uid == RPartition(right, "-")[1]
        version == RPartition(right, "-")[2]
    IN IF extension # <<"f", "p", "k", "g">> THEN [exc |-> "ValueError", parts |-> NoParts]
       ELSE IF publisher_uid = <<>> \/ package_uid = <<>> \/ version = <<>>
            THEN [exc |-> "ValueError", parts |-> NoParts]
       ELSE [exc |-> "", parts |-> <<publisher_uid, package_uid, version>>]

build_fpkg_filename(publisher_uid, package_uid, version) ==
    IF publisher_uid = <<>> \/ package_uid = <<>> \/ version = <<>>
    THEN [exc |-> "ValueError", filename |-> <<>>]
    ELSE [exc |-> "",
          filename |-> publisher_uid \o <<".">> \o package_uid \o <<"-">> \o version
                          \o <<".", "f", "p", "k", "g">>]

(***************************************************************************)
(* Version blocks of transformer files (transformer.py).  A line is its    *)
(* characters and whether its bytes decode as UTF-8; as readlines() yields *)
(* it, it holds no line end but at its end.  Indexes count from 0 as in    *)
(* the code.                                                               *)
(***************************************************************************)
Line(text, utf8) == [text |-> text, utf8 |-> utf8]

\* lines[start:stop]
Slice(lines, start, stop) ==
    LET n == Len(lines)
        clip(k) == IF k < 0 THEN (IF n + k < 0 THEN 0 ELSE n + k)
                   ELSE IF k > n THEN n ELSE k
    IN IF clip(start) >= clip(stop) THEN <<>>
       ELSE SubSeq(lines, clip(start) + 1, clip(stop))

RECURSIVE Ascending(_)
Ascending(indexes) ==
    IF indexes = {} THEN <<>>
    ELSE <<Min(indexes)>> \o Ascending(indexes \ {Min(indexes)})

\* get_matching_indexes(lines, lambda l: l.startswith(marker)): a line
\* that fails to decode is passed over
get_matching_indexes(lines, marker) ==
    Ascending({i \in 0..(Len(lines) - 1) :
                 lines[i + 1].utf8 /\ StartsWith(lines[i + 1].text, marker)})

\* end_idx of the block of the def_num-th marker; gap is what is taken off
\* the next marker's index
EndIndex(lines, transformer_begin_indexes, def_num, gap) ==
    IF transformer_begin_indexes[def_num]
          = transformer_begin_indexes[Len(transformer_begin_indexes)]
    THEN Len(lines) - 1
    ELSE transformer_begin_indexes[def_num + 1] - gap

\* what iterating versions() gives: the versions yielded, and the
\* exception that ended the iteration, if any
Iterated(made) ==
    LET failing == {k \in 1..Len(made) : made[k].exc # ""}
    IN IF failing = {} THEN [exc |-> "", yielded |-> made]
       ELSE [exc |-> made[Min(failing)].exc,
             yielded |-> SubSeq(made, 1, Min(failing) - 1)]

TRANSFORMER_NAME == <<"T", "R", "A", "N", "S", "F", "O", "R", "M", "E", "R", "_", "N", "A", "M", "E">>

\* re.match(r"^(.+?):\s+(.+?)$", line): the first colon after at least one
\* character that is followed by whitespace and at least one more
\* character before the end of the line; name and value stripped
KeyValue(text) ==
    LET end == IF text # <<>> /\ text[Len(text)] = "\n" THEN Len(text) - 1 ELSE Len(text)
        colons == {c \in 2..(end - 2) : text[c] = ":" /\ text[c + 1] \in Whitespace}
    IN IF colons = {} THEN [matched |-> FALSE, name |-> <<>>, value |-> <<>>]
       ELSE [matched |-> TRUE,
             name |-> Strip(SubSeq(text, 1, Min(colons) - 1)),
             value |-> Strip(SubSeq(text, Min(colons) + 1, end))]

\* FmxTransformer.props
Props(lines) ==
    LET pairs == [i \in 1..Len(lines) |-> KeyValue(lines[i].text)]
        kept == SelectSeq(pairs, LAMBDA pair :
                    pair.matched /\ ~StartsWith(pair.name, <<"P", "A", "R", "A", "M", "E", "T", "E", "R", "_">>))
    IN AssignAll({}, [i \in 1..Len(kept) |-> <<kept[i].name, kept[i].value>>])

\* FmxTransformer(lines): the version, or the exception of __init__
FmxTransformerNew(lines) ==
    LET props == Props(lines)
        failed(exc) == [exc |-> exc, lines |-> lines, name |-> <<>>, version |-> 0]
        value(key) == (CHOOSE item \in props : item[1] = key)[2]
    IN IF TRANSFORMER_NAME \notin Keys(props) THEN failed("ValueError")
       ELSE IF <<"V", "E", "R", "S", "I", "O", "N">> \notin Keys(props) THEN failed("TypeError")
       ELSE IF ~IsInt(value(<<"V", "E", "R", "S", "I", "O", "N">>)) THEN failed("ValueError")
       ELSE [exc |-> "", lines |-> lines, name |-> value(TRANSFORMER_NAME),
             version |-> int(value(<<"V", "E", "R", "S", "I", "O", "N">>))]

\* FmxFile.versions
FmxFileVersions(lines) ==
    LET transformer_begin_indexes == get_matching_indexes(lines, TRANSFORMER_NAME)
    IN Iterated([def_num \in 1..Len(transformer_begin_indexes) |->
           FmxTransformerNew(
               Slice(lines, transformer_begin_indexes[def_num],
                     EndIndex(lines, transformer_begin_indexes, def_num, 1)))])

FMW0001 == <<"F", "M", "W", "0", "0", "0", "1">>

\* CustomTransformer.is_encrypted without strip()
IsEncryptedAsRead(lines) == lines[1].text = FMW0001

\* CustomTransformer.is_encrypted
is_encrypted(lines) == Strip(lines[1].text) = FMW0001

\* CustomTransformer(lines): the version, or the exception of __init__
CustomTransformerNew(lines) ==
    LET begins == {i \in 1..Len(lines) : StartsWith(lines[i].text, TRANSFORMER_BEGIN)}
        failed(exc) == [exc |-> exc, lines |-> lines, header |-> NoHeader,
                        is_encrypted |-> FALSE]
    IN IF begins = {} THEN failed("ValueError")
       ELSE IF ~lines[Min(begins)].utf8 THEN failed("UnicodeDecodeError")
       ELSE LET parsed == parse_custom_transformer_header(lines[Min(begins)].text)
            IN IF parsed.exc # "ok" THEN failed(parsed.exc)
               ELSE [exc |-> "", lines |-> lines, header |-> parsed.header,
                     is_encrypted |-> is_encrypted(lines)]

\* CustomTransformerFmxFile.versions with the block bounds of FmxFile
CustomVersionsLegacyBounds(lines) ==
    LET transformer_begin_indexes == get_matching_indexes(lines, TRANSFORMER_BEGIN)
    IN Iterated([def_num \in 1..Len(transformer_begin_indexes) |->
           CustomTransformerNew(
               Slice(lines, transformer_begin_indexes[def_num],
                     EndIndex(lines, transformer_begin_indexes, def_num, 1)))])

\* CustomTransformerFmxFile.versions
CustomTransformerFmxFileVersions(lines) ==
    LET transformer_begin_indexes == get_matching_indexes(lines, TRANSFORMER_BEGIN)
    IN Iterated([def_num \in 1..Len(transformer_begin_indexes) |->
           CustomTransformerNew(
               Slice(lines, transformer_begin_indexes[def_num] - 1,
                     EndIndex(lines, transformer_begin_indexes, def_num, 2)))])

\* TransformerFile.versions() of the class load_transformer chose
IteratedVersions(file) ==
    IF file.cls = "FmxFile" THEN FmxFileVersions(file.lines)
    ELSE CustomTransformerFmxFileVersions(file.lines)

(***************************************************************************)
(* The key-value scan of a transformer's text (extractor.py).  The result  *)
(* dict is a set of <<key, value>> pairs.                                  *)
(***************************************************************************)
TEMPLATE_START == <<"T", "E", "M", "P", "L", "A", "T", "E", "_", "S", "T", "A", "R", "T">>

CHANGE_LOG_START == <<"C", "H", "A", "N", "G", "E", "_", "L", "O", "G", "_", "S", "T", "A", "R", "T">>

CHANGE_LOG_END == <<"C", "H", "A", "N", "G", "E", "_", "L", "O", "G", "_", "E", "N", "D">>

Changes == <<"c", "h", "a", "n", "g", "e", "s">>

IdentifierStart ==
    {"a", "b", "c", "d", "e", "f", "g", "h", "i", "j", "k", "l", "m", "n", "o", "p", "q", "r", "s", "t", "u", "v", "w", "x", "y", "z", "A", "B", "C", "D", "E", "F", "G", "H", "I", "J", "K", "L", "M", "N", "O", "P", "Q", "R", "S", "T", "U", "V", "W", "X", "Y", "Z", "_"}

\* str.isidentifier(), for ASCII text
IsIdentifier(s) ==
    /\ s # <<>>
    /\ s[1] \in IdentifierStart
    /\ \A i \in 2..Len(s) : s[i] \in IdentifierStart \cup Digits

\* str.rstrip()
RStrip(s) ==
    LET solid == {i \in 1..Len(s) : s[i] \notin Whitespace}
    IN IF solid = {} THEN <<>>
       ELSE SubSeq(s, 1, CHOOSE j \in solid : \A k \in solid : k <= j)

\* line.partition("#")[0].strip(): the line without its comment
CodeOf(line) == Strip(Partition(line, "#")[1])

\* the condition under which a line is taken for a key-value pair
IsKeyValue(line) ==
    /\ \E i \in 1..Len(line) : line[i] = ":"
    /\ IsIdentifier(Strip(Partition(line, ":")[1]))
    /\ \A i \in 1..Len(Partition(line, ":")[1]) : Partition(line, ":")[1][i] # " "

\* result[key]
ValueOf(result, key) == (CHOOSE item \in result : item[1] = key)[2]

\* the loop of _parse_transformer that takes a line of a change log for a
\* key-value pair when it has the shape of one
RECURSIVE ScanLinesKeyValueFirst(_, _, _)
ScanLinesKeyValueFirst(lines, change_log_started, result) ==
    IF lines = <<>> THEN result
    ELSE LET line == CodeOf(Head(lines))
         IN IF line = TEMPLATE_START THEN result
            ELSE IF line = CHANGE_LOG_START
            THEN ScanLinesKeyValueFirst(Tail(lines), TRUE, Assign(result, Changes, <<>>))
            ELSE IF line = CHANGE_LOG_END
            THEN ScanLinesKeyValueFirst(Tail(lines), FALSE, result)
            ELSE IF IsKeyValue(line)
            THEN ScanLinesKeyValueFirst(Tail(lines), change_log_started,
                     Assign(result, Lower(Strip(Partition(line, ":")[1])),
                            IF Strip(Partition(line, ":")[2]) = <<>> THEN None
                            ELSE Strip(Partition(line, ":")[2])))
            ELSE IF change_log_started
            THEN ScanLinesKeyValueFirst(Tail(lines), TRUE,
                     Assign(result, Changes,
                            ValueOf(result, Changes) \o RStrip(line) \o <<"\n">>))
            ELSE ScanLinesKeyValueFirst(Tail(lines), change_log_started, result)

\* the loop of _parse_transformer over the remaining lines
RECURSIVE ScanLines(_, _, _)
ScanLines(lines, change_log_started, result) ==
    IF lines = <<>> THEN result
    ELSE LET line == CodeOf(Head(lines))
         IN IF line = TEMPLATE_START THEN result
            ELSE IF line = CHANGE_LOG_START
            THEN ScanLines(Tail(lines), TRUE, Assign(result, Changes, <<>>))
            ELSE IF line = CHANGE_LOG_END
            THEN ScanLines(Tail(lines), FALSE, result)
            ELSE IF change_log_started
            THEN ScanLines(Tail(lines), TRUE,
                     Assign(result, Changes,
                            ValueOf(result, Changes) \o RStrip(line) \o <<"\n">>))
            ELSE IF IsKeyValue(line)
            THEN ScanLines(Tail(lines), change_log_started,
                     Assign(result, Lower(Strip(Partition(line, ":")[1])),
                            IF Strip(Partition(line, ":")[2]) = <<>> THEN None
                            ELSE Strip(Partition(line, ":")[2])))
            ELSE ScanLines(Tail(lines), change_log_started, result)

\* _parse_transformer
parse_transformer(content) == ScanLines(Split(content, "\n"), FALSE, {})

(***************************************************************************)
(* The inputs the specifications draw from.                                *)
(***************************************************************************)
\* a manifest: publisher_uid "e", uid "p", and its component lists
Package(transformers, formats) ==
    [publisher_uid |-> <<"e">>, uid |-> <<"p">>, minimum_fme_build |-> 2,
     transformers |-> transformers, formats |-> formats]

\* the manifest of the calls that read its identity only
Packages == {Package(<<>>, <<>>)}

\* manifest entries for transformer A
TransformerEntries == [name : {<<"A">>}, version : {1, 2}]

VersionNames == {<<"e", ".", "p", ".", "A">>, <<"e", ".", "p", ".", "B">>}

VersionNumbers == {0, 1, 2}

\* versions of the legacy and the JSON dialect
ScriptVersions ==
    [name : VersionNames, version : VersionNumbers,
     python_compatibility : {<<"3", "6">>, <<"2", "7">>, TwoOrThree, None},
     insert_mode : {""}, build_num : {0}]

\* versions of the compiled dialect
CustomVersions ==
    [name : VersionNames, version : VersionNumbers,
     python_compatibility : {<<"3", "6">>, <<"2", "7">>, TwoOrThree},
     insert_mode : {LinkedAlways, "\"Embedded Always\""}, build_num : {1, 2}]

\* the transformer files with n versions: compiled files with either first
\* line, legacy files, JSON files, and a file of an unknown extension
TransformerFiles(n) ==
    [ext : {"fmx"}, first_line : {<<"#", "!">>}, versions : [1..n -> CustomVersions]]
    \cup (IF n = 1
          THEN [ext : {"fmx"}, first_line : {<<"F", "M", "W", "0", "0", "0", "1">>},
                versions : [1..n -> CustomVersions]]
          ELSE {})
    \cup [ext : {"fmx"}, first_line : {<<"T">>}, versions : [1..n -> ScriptVersions]]
    \cup [ext : {"fmxj"}, first_line : {<<"{">>}, versions : [1..n -> ScriptVersions]]
    \cup (IF n = 0 THEN [ext : {"txt"}, first_line : {<<"T">>}, versions : {<<>>}] ELSE {})

TokChars == {"2", "3", "4", "5", "6", ".", "o"}

\* the tokens of test_is_valid_python_compatibility and some around the floor
NamedTokens ==
    {<<"2", "6">>, <<"2", "7">>, <<"3", "4">>, <<"3", "5">>, <<"3", "6">>, <<"3", "7">>,
     <<"3", ".", "8", ".", "9">>, TwoOrThree, <<"3", "5", ".", "0">>, <<"3", "1", "0">>,
     <<"A", "r", "c", "G", "I", "S", "D", "e", "s", "k", "t", "o", "p">>, None}

Tokens == UNION {[1..n -> TokChars] : n \in 0..MaxTokLen} \cup NamedTokens

\* manifest entries for formats
FormatEntries == [name : {<<"m">>}]

\* a format-info line of n fields: the first is the format name, the seventh
\* (FILTER) is empty, the last is given, every other one is "x"
RecordLine(name, n, last, lead, trail) ==
    LET field(k) == IF k = 1 THEN name
                    ELSE IF k = n THEN last
                    ELSE IF k = 7 THEN <<>>
                    ELSE <<"x">>
    IN lead \o Join([k \in 1..n |-> field(k)], "|") \o trail

FormatNames == {<<"E", ".", "P", ".", "M">>, <<"E", ".", "P", ".", "N">>, <<"e", ".", "p", ".", "m">>}

InfoLines ==
    {RecordLine(name, n, last, lead, trail) :
        name \in FormatNames, n \in 15..MaxFields, last \in {<<>>, <<"c">>},
        lead \in {<<>>, <<" ">>}, trail \in {<<>>, <<"\n">>, <<" ", "\n">>}}
    \cup {<<>>, <<";">>, <<"\n">>}

\* a format-info line of n fields with the given DIRECTION and VISIBLE
VisibilityLine(direction, visible, n) ==
    LET field(k) == IF k = 1 THEN <<"E", ".", "P", ".", "M">>
                    ELSE IF k = 4 THEN direction
                    ELSE IF k = 12 THEN visible
                    ELSE IF k = 7 THEN <<>>
                    ELSE <<"x">>
    IN Join([k \in 1..n |-> field(k)], "|")

Directions == {INPUT, OUTPUT, BOTH}

Visibles == {YES, NO, INPUT, OUTPUT}

VisibilityLines ==
    {VisibilityLine(direction, visible, n) :
        direction \in Directions, visible \in Visibles,
        n \in {num_required_columns, num_columns}}

\* the lines a .db file is made of, without their line ends
DbLineBodies ==
    {<<";", "c">>, <<>>,
     RecordLine(<<"E", ".", "P", ".", "M">>, 17, <<"x">>, <<>>, <<>>),
     RecordLine(<<"E", ".", "P", ".", "M">>, 18, <<"c">>, <<>>, <<>>),
     RecordLine(<<"E", ".", "P", ".", "N">>, 17, <<"x">>, <<>>, <<>>),
     RecordLine(<<"E", ".", "P", ".", "M">>, 16, <<"x">>, <<>>, <<>>)}

\* the lines iterating an open file yields: every line keeps its "\n", the
\* last line may lack one but is then not empty
DbFiles ==
    UNION {{[i \in 1..n |-> IF i = n /\ ~ended THEN bodies[i] ELSE bodies[i] \o <<"\n">>] :
               bodies \in {b \in [1..n -> DbLineBodies] : ended \/ n = 0 \/ b[n] # <<>>}} :
           n \in 0..MaxDbLines, ended \in BOOLEAN}

\* the transformer names of an enumerated package
BuildNames == {<<"X">>, <<"Y">>}

\* manifests with up to MaxEntries transformer entries
BuildPackages ==
    {Package(transformers, <<>>) :
        transformers \in UNION {[1..n -> [name : BuildNames, version : {0, 1, 2}]] :
                                  n \in 0..MaxEntries}}

\* a legacy transformer file with one version
ScriptFile(name, version) ==
    [ext |-> "fmx", first_line |-> <<"T">>,
     versions |-> <<[name |-> <<"e", ".", "p", ".">> \o name, version |-> version,
                     python_compatibility |-> <<"3", "6">>,
                     insert_mode |-> "", build_num |-> 0]>>]

\* the format names of an enumerated package
BuildFormatNames == {<<"m">>, <<"n">>}

\* manifests with up to MaxEntries format entries, and transformer X or Y
FormatPackages ==
    {Package(transformers, formats) :
        transformers \in {<<>>, <<[name |-> <<"X">>, version |-> 1]>>,
                          <<[name |-> <<"Y">>, version |-> 1]>>},
        formats \in UNION {[1..n -> [name : BuildFormatNames]] : n \in 0..MaxEntries}}

\* a .fmf file with the two lines check_fmf looks for, or the first only
FmfFile(fqname, complete) ==
    [exists |-> TRUE,
     contents |-> <<"S", "O", "U", "R", "C", "E", "_", "R", "E", "A", "D", "E", "R", " ">> \o fqname \o <<"\n">>
                  \o (IF complete THEN <<"F", "O", "R", "M", "A", "T", "_", "N", "A", "M", "E", " ">> \o fqname \o <<"\n">> ELSE <<>>)]

\* a .db file of one format line
DbFile(fqname) ==
    [exists |-> TRUE, lines |-> <<RecordLine(fqname, 17, <<"x">>, <<>>, <<"\n">>)>>]

NoFormatFiles ==
    [doc |-> FALSE, fms |-> FALSE, fmf |-> [exists |-> FALSE, contents |-> <<>>],
     db |-> [exists |-> FALSE, lines |-> <<>>]]

\* the formats folder: format m with any of its files, format n with its
\* own files or none
FormatFolders ==
    {[name \in BuildFormatNames |-> IF name = <<"m">> THEN of_m ELSE of_n] :
        of_m \in [doc : BOOLEAN, fms : BOOLEAN,
                  fmf : {NoFormatFiles.fmf, FmfFile(<<"E", ".", "P", ".", "M">>, TRUE),
                         FmfFile(<<"E", ".", "P", ".", "N">>, TRUE),
                         FmfFile(<<"E", ".", "P", ".", "M">>, FALSE)},
                  db : {NoFormatFiles.db, DbFile(<<"E", ".", "P", ".", "M">>),
                        DbFile(<<"E", ".", "P", ".", "N">>)}],
        of_n \in [doc : BOOLEAN, fms : {FALSE},
                  fmf : {NoFormatFiles.fmf, FmfFile(<<"E", ".", "P", ".", "N">>, TRUE)},
                  db : {NoFormatFiles.db, DbFile(<<"E", ".", "P", ".", "N">>)}]}

\* package directories: every transformers folder without formats, and
\* every formats folder with the file of transformer X
Disks ==
    [required : BOOLEAN,
     transformers : [BuildNames ->
        [doc : BOOLEAN,
         fmx : {[ext |-> "", first_line |-> <<>>, versions |-> <<>>]}
               \cup {ScriptFile(name, version) : name \in BuildNames, version \in {1, 2}}]],
     formats : {[name \in BuildFormatNames |-> NoFormatFiles]}]

FormatDisks ==
    [required : {TRUE},
     transformers : {[name \in BuildNames |->
                        IF name = <<"X">>
                        THEN [doc |-> TRUE, fmx |-> ScriptFile(<<"X">>, 1)]
                        ELSE [doc |-> FALSE,
                              fmx |-> [ext |-> "", first_line |-> <<>>, versions |-> <<>>]]]},
     formats : FormatFolders]

\* the archive in the dist directory, and a name without the extension
DistFile == <<"e", ".", "p", "-", "1", ".", "f", "p", "k", "g">>

VerifyArguments ==
    {PathArgument(DistFile), FileArgument(DistFile), FileArgument(<<"e", ".", "p", "-", "1", ".", "z", "i", "p">>)}

\* the cells of a '# TRANSFORMER_BEGIN' line, as its writer means them
QuotedLinkedAlways == <<"\"", "L", " ", "A", "\"">>

QuotedEmbeddedAlways == <<"\"", "E", " ", "A", "\"">>

CategoryLists ==
    {<<>>, <<<<"A">>>>, <<<<"A">>, <<"F", " ", "S">>>>, <<<<"A">>, <<"B">>>>}

\* one cell of a CSV row: quoted, its quotes doubled, when it holds a comma,
\* a quote or (as the category elements are written) a space
RECURSIVE DoubleQuotes(_)
DoubleQuotes(s) ==
    IF s = <<>> THEN <<>>
    ELSE (IF s[1] = "\"" THEN <<"\"", "\"">> ELSE <<s[1]>>) \o DoubleQuotes(Tail(s))

CsvCell(s, specials) ==
    IF \E i \in 1..Len(s) : s[i] \in specials
    THEN <<"\"">> \o DoubleQuotes(s) \o <<"\"">>
    ELSE s

\* the category cell of a header line: the CSV row of the categories, as
\* one cell of the header row
CategoryCell(categories) ==
    CsvCell(Join([i \in 1..Len(categories) |-> CsvCell(categories[i], {",", "\"", " "})],
                 ","),
            {",", "\""})

HeaderCells ==
    [name : {<<"e", ".", "p", ".", "A">>},
     version : {<<"1">>, <<"2">>},
     categories : CategoryLists,
     guid : {<<"g">>},
     insert_mode : {QuotedLinkedAlways, QuotedEmbeddedAlways},
     build_num : {<<"1">>, <<"2">>},
     deprecated : {<<"N", "o">>, <<"Y", "e", "s">>},
     pyver : {<<>>, <<"3", "6">>},
     data_processing_type : {<<>>, Source, Both},
     nfields : {13, 16}]

\* the header line of the given cells: the first nfields of them, the rest
\* belonging to later revisions of the format
HeaderLine(cells) ==
    LET row == <<cells.name, cells.version, CategoryCell(cells.categories), cells.guid,
                 cells.insert_mode, <<"N", "o">>, <<"N">>, <<>>, <<"N", "o">>,
                 cells.build_num, <<"Y", "E", "S">>, cells.deprecated, cells.pyver,
                 <<"N", "o">>, <<>>, cells.data_processing_type>>
    IN TRANSFORMER_BEGIN \o <<" ">> \o Join(SubSeq(row, 1, cells.nfields), ",")

\* the raw data-processing-type values: none, plain words, and the JSON
\* text of every JSON value of the model
RawValues ==
    {[present |-> FALSE, text |-> <<>>]}
    \cup [present : {TRUE},
          text : {<<>>, Source, Destination, Both, <<" ">> \o Source \o <<" ">>}
                 \cup {JsonText(v) : v \in JsonValues}]

\* the compiled header line that carries a raw value in its last field
CarrierCells(raw) ==
    [name |-> <<"e", ".", "p", ".", "A">>, version |-> <<"1">>, categories |-> <<>>,
     guid |-> <<"g">>, insert_mode |-> QuotedLinkedAlways, build_num |-> <<"2">>,
     deprecated |-> <<"N", "o">>, pyver |-> <<>>, data_processing_type |-> raw.text,
     nfields |-> IF raw.present THEN 16 ELSE 13]

\* props.get("DATA_PROCESSING_TYPE") of the legacy block that carries a raw
\* value in a 'DATA_PROCESSING_TYPE: <value>' line: the line matches only
\* with a value that is not blank, and the value is stripped
FmxProp(raw) ==
    IF ~raw.present \/ Strip(raw.text) = <<>> THEN None ELSE Strip(raw.text)

\* json_def.get("dataProcessingType") of the JSON version that carries a
\* raw value: the value itself when the text is JSON, the text as a string
\* when it is not
FmxjValue(raw) ==
    IF ~raw.present THEN JsonNull
    ELSE IF json_loads(Strip(raw.text)).exc = "ok" THEN json_loads(Strip(raw.text)).value
    ELSE JsonStr(raw.text)

\* the manifests of the help index: a uid with or without a hyphen and an
\* upper-case letter, a minimum build on either side of URL support
HelpPackage(uid, minimum_fme_build, transformers, formats) ==
    [Package(transformers, formats) EXCEPT
        !.uid = uid, !.minimum_fme_build = minimum_fme_build]

HyphenUid == <<"p", "-", "A">>

HelpFormatNames == {<<"F">>, <<"m">>}

HelpPackages ==
    {HelpPackage(uid, minimum_fme_build, transformers, formats) :
        uid \in {<<"p">>, HyphenUid},
        minimum_fme_build \in {2, 3},
        transformers \in {<<>>, <<[name |-> <<"X">>, version |-> 1]>>},
        formats \in UNION {[1..n -> [name : HelpFormatNames]] : n \in 0..MaxEntries}}

\* the format_directions dicts: each format name absent or with the letters
\* of its directions
DirectionTexts == {<<>>, <<"r">>, <<"w">>, <<"r", "w">>}

DirectionDicts ==
    {{<<name, given[name]>> : name \in names} :
        names \in SUBSET HelpFormatNames, given \in [HelpFormatNames -> DirectionTexts]}

\* the doc folder: X.htm and X.txt, the folders s and d.htm, and o.htm
\* beside the doc folder
DocTree ==
    {[path |-> <<<<"X", ".", "h", "t", "m">>>>, dir |-> FALSE],
     [path |-> <<<<"X", ".", "t", "x", "t">>>>, dir |-> FALSE],
     [path |-> <<<<"s">>>>, dir |-> TRUE],
     [path |-> <<<<"d", ".", "h", "t", "m">>>>, dir |-> TRUE],
     [path |-> <<Up, <<"o", ".", "h", "t", "m">>>>, dir |-> FALSE]}

Url == <<"h", "t", "t", "p", ":", "/", "/", "e", ".", "c">>

Targets ==
    {<<"/", "X", ".", "h", "t", "m">>, <<"X", ".", "h", "t", "m">>, <<"/", ".", ".", "/", "o", ".", "h", "t", "m">>, <<"/", "X", ".", "t", "x", "t">>, <<"/", "d", ".", "h", "t", "m">>, <<"/", "n", ".", "h", "t", "m">>, Url}

\* the help context of transformer X in the package with the hyphen uid
ContextOfX == <<"f", "m", "x", "_", "e", "_", "p", "-", "A", "_", "X">>

CsvRows == {<<key, target>> : key \in {ContextOfX, <<"k">>}, target \in Targets}
           \cup {<<ContextOfX>>}

(***************************************************************************)
(* The state of a call that a specification does not make.                 *)
(***************************************************************************)
Pending == [kind |-> "pending", msg |-> "", expected |-> <<>>, actual |-> <<>>, n |-> 0]

NotParsed == [exc |-> "pending", fields |-> <<>>, actual |-> 0, expects |-> 0]

NotDerived == [exc |-> "pending", value |-> <<>>]

NoFile == [ext |-> "", first_line |-> <<>>, versions |-> <<>>]

IdleValidate ==
    /\ xf_file = NoFile
    /\ xf_entry = [name |-> <<>>, version |-> 0]
    /\ outcome = Pending

IdleCompat ==
    /\ compat_arg = <<>>
    /\ compat = [exc |-> "pending", value |-> FALSE]

IdleFormat ==
    /\ info_line = <<>>
    /\ formatinfo = NotParsed
    /\ fmt_entry = [name |-> <<>>]
    /\ db_lines = <<>>
    /\ db_check = Pending
    /\ visible_as = NotDerived

NotBuilt == [error |-> Pending, files_read |-> <<>>, copied |-> {}]

NoArchive == [made |-> FALSE, members |-> {}]

NotVerified == [done |-> FALSE, success |-> FALSE, cause |-> Pending]

IdleBuild ==
    /\ disk = [required |-> FALSE, transformers |-> <<>>, formats |-> <<>>]
    /\ build = NotBuilt
    /\ fpkg = NoArchive
    /\ verify_arg = PathArgument(<<>>)
    /\ verdict = NotVerified

NoCells ==
    [name |-> <<>>, version |-> <<>>, categories |-> <<>>, guid |-> <<>>,
     insert_mode |-> <<>>, build_num |-> <<>>, deprecated |-> <<>>, pyver |-> <<>>,
     data_processing_type |-> <<>>, nfields |-> 0]

NotDecoded == [exc |-> "pending", header |-> NoHeader, categories |-> <<>>]

NoRaw == [present |-> FALSE, text |-> <<>>]

NotResolved ==
    [custom |-> [exc |-> "pending", value |-> <<>>], fmx |-> <<>>, fmxj |-> <<>>]

IdleDialect ==
    /\ header_in = NoCells
    /\ decoded = NotDecoded
    /\ raw_dpt = NoRaw
    /\ dpt = NotResolved

NoDocs == [tree |-> {}, rows |-> <<>>]

HelpPending == [kind |-> "pending", msg |-> "", keys |-> {}, path |-> <<>>]

IdleHelp ==
    /\ help_dir = NoDocs
    /\ directions_arg = {}
    /\ help_index = {}
    /\ help_check = HelpPending
    /\ warned = <<>>

\* the version dicts package_deprecated reads: a version number, and a
\* visible flag or none
VersionDicts ==
    [version : {1, 2}, visible : BOOLEAN] \cup [version : {1, 2}]

\* the versions lists: no version, one, or two with different numbers in
\* either order
VersionDictLists ==
    {<<>>} \cup {<<v>> : v \in VersionDicts}
    \cup {pair \in {<<v, w>> : v, w \in VersionDicts} : pair[1].version # pair[2].version}

\* the transformer dicts: with or without a versions list
TransformerDicts ==
    {[name |-> <<"X">>]} \cup [name : {<<"X">>}, versions : VersionDictLists]

\* the format dicts: with or without a visible flag
FormatDicts ==
    {[name |-> <<"m">>]} \cup [name : {<<"m">>}, visible : BOOLEAN]

FormatDictLists ==
    {<<>>} \cup {<<f>> : f \in FormatDicts} \cup {<<f, g>> : f, g \in FormatDicts}

\* the manifest documents summarize_fpkg loads: without a package_content,
\* or with one that has or lacks a transformers and a formats list
ManifestContents ==
    LET lists == {<<>>, <<[name |-> <<"X">>, version |-> 1]>>,
                  <<[name |-> <<"X">>, version |-> 2], [name |-> <<"Y">>, version |-> 1]>>}
        formats == {<<>>, <<[name |-> <<"m">>]>>}
    IN {<<>>} \cup [transformers : lists] \cup [formats : formats]
       \cup [transformers : lists, formats : formats]

ManifestDocuments ==
    LET identity == [publisher_uid |-> <<"e">>, uid |-> <<"p">>, minimum_fme_build |-> 2]
    IN {identity} \cup {Put(identity, "package_content", content) : content \in ManifestContents}

\* what a transformer file's versions() yields, as the properties
\* _transformer_data reads
SummaryVersion(version, visible, categories) ==
    [name |-> <<"e", ".", "p", ".", "X">>, version |-> version, categories |-> categories,
     aliases |-> <<>>, visible |-> visible, data_processing_types |-> <<>>]

SummaryVersionLists ==
    {<<>>,
     <<SummaryVersion(1, TRUE, <<<<"A">>>>)>>,
     <<SummaryVersion(1, FALSE, <<>>)>>,
     <<SummaryVersion(2, FALSE, <<<<"B">>>>), SummaryVersion(1, TRUE, <<<<"A">>>>)>>,
     <<SummaryVersion(1, FALSE, <<<<"A">>>>), SummaryVersion(2, TRUE, <<<<"B">>, <<"A">>>>)>>}

\* extracted package directories: per transformer the versions of its file
\* and its readme, per format the format line of its .db and its readme
SummaryDisks ==
    [transformers : [BuildNames -> [versions : SummaryVersionLists, readme : {None, <<"d">>}]],
     formats : [{<<"m">>} ->
        [format_line : {VisibilityLine(BOTH, visible, n) :
                           visible \in Visibles, n \in {num_required_columns, num_columns}},
         readme : {None, <<"d">>}]]]

\* the lines of a compiled file after its first: the magic token, the
\* header line of version 1 or 2, a body line, a line of undecodable
\* bytes, and one that starts with the marker's bytes
BeginLine(version) ==
    Line(HeaderLine([CarrierCells([present |-> FALSE, text |-> <<>>])
                        EXCEPT !.version = version]) \o <<"\n">>, TRUE)

CustomLines ==
    {Line(FMW0001 \o <<"\n">>, TRUE),
     BeginLine(<<"1">>), BeginLine(<<"2">>), Line(<<"x", "\n">>, TRUE),
     Line(<<"?", "\n">>, FALSE), Line(TRANSFORMER_BEGIN \o <<"?", "\n">>, FALSE)}

\* the files load_transformer takes for compiled ones: the first line
\* starts with the shebang or the magic token
CustomFmxFiles(n) ==
    IF n = 0 THEN {}
    ELSE {<<first>> \o rest :
            first \in {Line(FMW0001 \o <<"\n">>, TRUE), Line(<<"#", "!", "\n">>, TRUE)},
            rest \in [1..(n - 1) -> CustomLines]}

\* the lines of a legacy file
LegacyLines ==
    {Line(TRANSFORMER_NAME \o <<":", " ", "e", ".", "p", ".", "A", "\n">>, TRUE),
     Line(<<"V", "E", "R", "S", "I", "O", "N", ":", " ", "1", "\n">>, TRUE),
     Line(<<"V", "E", "R", "S", "I", "O", "N", ":", " ", "2", "\n">>, TRUE),
     Line(<<"x", "\n">>, TRUE)}

LegacyFmxFiles(n) == [1..n -> LegacyLines]

\* publisher uids, package uids and versions names are built from
PublisherUids == {<<>>, <<"e">>, <<"e", "x", "a", "m", "p", "l", "e">>}

PackageUids == {<<>>, <<"p">>, <<"m", "y", "-", "p", "a", "c", "k", "a", "g", "e">>, <<"a", "_", "b">>}

PackageVersions == {<<>>, <<"1">>, <<"0", ".", "1", ".", "0">>, <<"1", "-", "r", "c">>}

\* file names handed to split_fpkg_filename as they are
FileNames == {<<>>, <<"e", ".", "f", "p", "k", "g">>, <<"e", "-", "1", ".", "f", "p", "k", "g">>, <<".", "f", "p", "k", "g">>, <<"e", ".", "p", "-", "1", ".", "z", "i", "p">>, <<"e", "f", "p", "k", "g">>, <<"e", ".", "p", "-", "1", ".", "f", "p", "k", "g", ".", "f", "p", "k", "g">>}

\* the lines of a transformer's text: the three sentinels, one of them
\* indented and commented, key-value lines, one with a tab after its key,
\* a line with a blank in its key, and a line of text with surrounding
\* blanks and a comment
ScanLineTexts ==
    {TEMPLATE_START, CHANGE_LOG_START, <<" ">> \o CHANGE_LOG_END \o <<" ", "#", "c">>,
     <<"A", ":", " ", "1">>, <<"a", ":">>, <<"B", ":", "2", " ", "#", "c">>, <<"C", "H", "A", "N", "G", "E", "S", ":", " ", "3">>, <<"a", " ", "b", ":", " ", "4">>, <<" ", "x", " ", " ", "#", "c">>,
     <<"A", "\t", ":", "5">>}

\* texts of up to MaxScanLines lines
ScanContents ==
    {Join(lines, "\n") : lines \in UNION {[1..n -> ScanLineTexts] : n \in 0..MaxScanLines}}

NotScanned == [done |-> FALSE, result |-> {}]

NoName == [built |-> FALSE, parts |-> NoParts, filename |-> <<>>]

NotSplit == [exc |-> "pending", parts |-> NoParts]

NoLines == [cls |-> "", lines |-> <<>>]

NotIterated == [exc |-> "pending", yielded |-> <<>>]

NoSummaryInput == [transformers |-> <<>>, formats |-> <<>>]

NotDecided == [done |-> FALSE, value |-> FALSE]

IdleSummary ==
    /\ summary_in = NoSummaryInput
    /\ deprecated = NotDecided
    /\ summary = <<>>

IdleName ==
    /\ name_in = NoName
    /\ name_out = NotSplit

IdleSplit ==
    /\ fmx_file = NoLines
    /\ blocks = NotIterated

IdleScan ==
    /\ fmx_text = <<>>
    /\ scan = NotScanned

(***************************************************************************)
(* Spec: validate_transformer is called once on a transformer file.        *)
(***************************************************************************)
Init ==
    /\ pc = "validate"
    /\ metadata \in Packages
    /\ \E n \in 0..MaxVersions : xf_file \in TransformerFiles(n)
    /\ xf_entry \in TransformerEntries
    /\ outcome = Pending
    /\ IdleCompat /\ IdleFormat /\ IdleBuild /\ IdleDialect /\ IdleHelp
    /\ IdleSummary /\ IdleName /\ IdleSplit /\ IdleScan

ValidateTransformer ==
    /\ pc = "validate"
    /\ outcome' = validate_transformer(metadata, xf_file, xf_entry)
    /\ pc' = "validated"
    /\ UNCHANGED <<metadata, xf_file, xf_entry, compatVars, formatVars, buildVars, dialectVars, helpVars,
                   summaryVars, nameVars, splitVars, scanVars>>

Next == ValidateTransformer

Spec == Init /\ [][Next]_vars

(***************************************************************************)
(* SpecCompat: is_valid_python_compatibility is called once on a token.    *)
(***************************************************************************)
InitCompat ==
    /\ pc = "compat"
    /\ metadata \in Packages
    /\ compat_arg \in Tokens
    /\ compat = [exc |-> "pending", value |-> FALSE]
    /\ IdleValidate /\ IdleFormat /\ IdleBuild /\ IdleDialect /\ IdleHelp
    /\ IdleSummary /\ IdleName /\ IdleSplit /\ IdleScan

IsValidPythonCompatibility ==
    /\ pc = "compat"
    /\ compat' = is_valid_python_compatibility(compat_arg)
    /\ pc' = "compat_done"
    /\ UNCHANGED <<metadata, compat_arg, validateVars, formatVars, buildVars, dialectVars, helpVars,
                   summaryVars, nameVars, splitVars, scanVars>>

NextCompat == IsValidPythonCompatibility

SpecCompat == InitCompat /\ [][NextCompat]_vars

(***************************************************************************)
(* SpecFormat: parse_formatinfo is called once on a line and               *)
(* get_format_visibility on the FormatInfo it returns, or check_formatinfo *)
(* once on a .db file.                                                     *)
(***************************************************************************)
InitFormat ==
    /\ metadata \in Packages
    /\ fmt_entry \in FormatEntries
    /\ formatinfo = NotParsed
    /\ db_check = Pending
    /\ visible_as = NotDerived
    /\ \/ pc = "parse" /\ info_line \in InfoLines \cup VisibilityLines /\ db_lines = <<>>
       \/ pc = "check" /\ info_line = <<>> /\ db_lines \in DbFiles
    /\ IdleValidate /\ IdleCompat /\ IdleBuild /\ IdleDialect /\ IdleHelp
    /\ IdleSummary /\ IdleName /\ IdleSplit /\ IdleScan

ParseFormatinfo ==
    /\ pc = "parse"
    /\ formatinfo' = parse_formatinfo(info_line)
    /\ pc' = "parsed"
    /\ UNCHANGED <<metadata, info_line, fmt_entry, db_lines, db_check, visible_as,
                   validateVars, compatVars, buildVars, dialectVars, helpVars,
                   summaryVars, nameVars, splitVars, scanVars>>

CheckFormatinfo ==
    /\ pc = "check"
    /\ db_check' = check_formatinfo(metadata, fmt_entry, db_lines)
    /\ pc' = "checked"
    /\ UNCHANGED <<metadata, info_line, formatinfo, fmt_entry, db_lines, visible_as,
                   validateVars, compatVars, buildVars, dialectVars, helpVars,
                   summaryVars, nameVars, splitVars, scanVars>>

GetFormatVisibility ==
    /\ pc = "parsed"
    /\ formatinfo.exc = ""
    /\ visible_as' = get_format_visibility(formatinfo.fields)
    /\ pc' = "derived"
    /\ UNCHANGED <<metadata, info_line, formatinfo, fmt_entry, db_lines, db_check,
                   validateVars, compatVars, buildVars, dialectVars, helpVars,
                   summaryVars, nameVars, splitVars, scanVars>>

NextFormat == ParseFormatinfo \/ CheckFormatinfo \/ GetFormatVisibility

SpecFormat == InitFormat /\ [][NextFormat]_vars

(***************************************************************************)
(* SpecBuild: an FMEPackager is constructed on a package directory and,    *)
(* when construction succeeds, build is called; when build returns, the    *)
(* directory is packed and the archive verified.                           *)
(***************************************************************************)
InitBuild ==
    /\ pc = "new"
    /\ \/ metadata \in BuildPackages /\ disk \in Disks
       \/ metadata \in FormatPackages /\ disk \in FormatDisks
    /\ build = NotBuilt
    /\ fpkg = NoArchive
    /\ verify_arg \in VerifyArguments
    /\ verdict = NotVerified
    /\ IdleValidate /\ IdleCompat /\ IdleFormat /\ IdleDialect /\ IdleHelp
    /\ IdleSummary /\ IdleName /\ IdleSplit /\ IdleScan

Construct ==
    /\ pc = "new"
    /\ LET constructed == FMEPackagerInit(metadata)
       IN /\ build' = [build EXCEPT !.error = constructed]
          /\ pc' = IF constructed.kind = "ok" THEN "constructed" ELSE "init_failed"
    /\ UNCHANGED <<metadata, disk, fpkg, verify_arg, verdict, validateVars, compatVars, formatVars, dialectVars, helpVars,
                   summaryVars, nameVars, splitVars, scanVars>>

Build ==
    /\ pc = "constructed"
    /\ build' = FMEPackagerBuild(metadata, disk)
    /\ pc' = "built"
    /\ UNCHANGED <<metadata, disk, fpkg, verify_arg, verdict,
                   validateVars, compatVars, formatVars, dialectVars, helpVars,
                   summaryVars, nameVars, splitVars, scanVars>>

\* the pack command goes on to make_fpkg when build returned
MakeFpkg ==
    /\ pc = "built"
    /\ build.error.kind = "ok"
    /\ fpkg' = make_fpkg(build)
    /\ pc' = "packed"
    /\ UNCHANGED <<metadata, disk, build, verify_arg, verdict,
                   validateVars, compatVars, formatVars, dialectVars, helpVars,
                   summaryVars, nameVars, splitVars, scanVars>>

\* the verify command on the archive the pack command made
Verify ==
    /\ pc = "packed"
    /\ verdict' = verify(verify_arg, FALSE, fpkg, metadata, disk)
    /\ pc' = "verified"
    /\ UNCHANGED <<metadata, disk, build, fpkg, verify_arg,
                   validateVars, compatVars, formatVars, dialectVars, helpVars,
                   summaryVars, nameVars, splitVars, scanVars>>

NextBuild == Construct \/ Build \/ MakeFpkg \/ Verify

SpecBuild == InitBuild /\ [][NextBuild]_vars

(***************************************************************************)
(* SpecDialect: parse_custom_transformer_header is called once on a header *)
(* line, or data_processing_types is read from one version of each dialect *)
(* that carries the same raw value.                                        *)
(***************************************************************************)
InitDialect ==
    /\ metadata \in Packages
    /\ decoded = NotDecoded
    /\ dpt = NotResolved
    /\ \/ pc = "header" /\ header_in \in HeaderCells /\ raw_dpt = NoRaw
       \/ pc = "dpt" /\ header_in = NoCells /\ raw_dpt \in RawValues
    /\ IdleValidate /\ IdleCompat /\ IdleFormat /\ IdleBuild /\ IdleHelp
    /\ IdleSummary /\ IdleName /\ IdleSplit /\ IdleScan

ParseCustomTransformerHeader ==
    /\ pc = "header"
    /\ LET parsed == parse_custom_transformer_header(HeaderLine(header_in))
       IN decoded' = [exc |-> parsed.exc, header |-> parsed.header,
                     categories |-> CustomCategories(parsed.header)]
    /\ pc' = "header_done"
    /\ UNCHANGED <<metadata, header_in, raw_dpt, dpt,
                   validateVars, compatVars, formatVars, buildVars, helpVars,
                   summaryVars, nameVars, splitVars, scanVars>>

DataProcessingTypes ==
    /\ pc = "dpt"
    /\ LET parsed == parse_custom_transformer_header(HeaderLine(CarrierCells(raw_dpt)))
       IN dpt' = [custom |-> [exc |-> parsed.exc,
                              value |-> CustomDataProcessingTypes(parsed.header)],
                  fmx |-> FmxDataProcessingTypes(FmxProp(raw_dpt)),
                  fmxj |-> FmxjDataProcessingTypes(FmxjValue(raw_dpt))]
    /\ pc' = "dpt_done"
    /\ UNCHANGED <<metadata, header_in, decoded, raw_dpt,
                   validateVars, compatVars, formatVars, buildVars, helpVars,
                   summaryVars, nameVars, splitVars, scanVars>>

NextDialect == ParseCustomTransformerHeader \/ DataProcessingTypes

SpecDialect == InitDialect /\ [][NextDialect]_vars

\* a doc file of the doc root
DocFile(name) == [path |-> <<name>>, dir |-> FALSE]

\* the docs a converted doc folder may hold: conventionally named files of
\* transformer X and of the formats m and F, and a folder with a doc's name
IndexDocs ==
    {DocFile(<<"X", ".", "h", "t", "m">>), DocFile(<<"m", ".", "h", "t", "m">>), DocFile(<<"m", "_", "f", "e", "a", "t", "u", "r", "e", "_", "r", "e", "p", ".", "h", "t", "m">>), DocFile(<<"m", "_", "p", "a", "r", "a", "m", "_", "r", ".", "h", "t", "m">>),
     DocFile(<<"F", ".", "h", "t", "m">>), DocFile(<<"F", "_", "f", "t", "_", "u", "s", "e", "r", "_", "a", "t", "t", "r", ".", "h", "t", "m">>),
     [path |-> <<<<"m", "_", "f", "t", "_", "p", "a", "r", "a", "m", "_", "w", ".", "h", "t", "m">>>>, dir |-> TRUE]}

(***************************************************************************)
(* SpecHelp: get_expected_help_index is called once on a manifest, or      *)
(* HelpBuilder.validate_index once on a doc folder with a package_help.csv,*)
(* or HelpBuilder.build_index once on a doc folder without one.            *)
(***************************************************************************)
InitHelp ==
    /\ metadata \in HelpPackages
    /\ help_index = {}
    /\ help_check = HelpPending
    /\ \/ pc = "index" /\ directions_arg \in DirectionDicts /\ help_dir = NoDocs
       \/ /\ pc = "validate"
          /\ metadata.uid = HyphenUid
          /\ metadata.formats = <<>>
          /\ directions_arg = {}
          /\ \E n \in 0..MaxRows : \E rows \in [1..n -> CsvRows] :
                help_dir = [tree |-> DocTree, rows |-> rows]
       \/ /\ pc = "build_index"
          /\ directions_arg = {}
          /\ \E docs \in SUBSET IndexDocs : help_dir = [tree |-> docs, rows |-> <<>>]
    /\ warned = <<>>
    /\ IdleValidate /\ IdleCompat /\ IdleFormat /\ IdleBuild /\ IdleDialect
    /\ IdleSummary /\ IdleName /\ IdleSplit /\ IdleScan

GetExpectedHelpIndex ==
    /\ pc = "index"
    /\ help_index' = get_expected_help_index(metadata, directions_arg)
    /\ pc' = "indexed"
    /\ UNCHANGED <<metadata, help_dir, directions_arg, help_check, warned,
                   validateVars, compatVars, formatVars, buildVars, dialectVars,
                   summaryVars, nameVars, splitVars, scanVars>>

ValidateIndex ==
    /\ pc = "validate"
    /\ help_check' = validate_index(metadata, help_dir)
    /\ pc' = "index_validated"
    /\ UNCHANGED <<metadata, help_dir, directions_arg, help_index, warned,
                   validateVars, compatVars, formatVars, buildVars, dialectVars,
                   summaryVars, nameVars, splitVars, scanVars>>

BuildIndex ==
    /\ pc = "build_index"
    /\ LET written == build_index(metadata, help_dir)
       IN /\ help_dir' = [help_dir EXCEPT !.rows = written.rows]
          /\ warned' = written.warnings
    /\ help_check' = HelpOk
    /\ pc' = "index_built"
    /\ UNCHANGED <<metadata, directions_arg, help_index,
                   validateVars, compatVars, formatVars, buildVars, dialectVars,
                   summaryVars, nameVars, splitVars, scanVars>>

NextHelp == GetExpectedHelpIndex \/ ValidateIndex \/ BuildIndex

SpecHelp == InitHelp /\ [][NextHelp]_vars

(***************************************************************************)
(* SpecSummary: package_deprecated is called once on a list of transformer *)
(* dicts and a list of format dicts, or summarize_fpkg once on an          *)
(* extracted package directory; metadata is then the manifest tree that    *)
(* the loaded FMEPackageMetadata holds.                                    *)
(***************************************************************************)
InitSummary ==
    /\ deprecated = NotDecided
    /\ summary = <<>>
    /\ build = NotBuilt
    /\ fpkg = NoArchive
    /\ verify_arg = PathArgument(<<>>)
    /\ verdict = NotVerified
    /\ \/ /\ pc = "deprecated"
          /\ metadata \in Packages
          /\ disk = [required |-> FALSE, transformers |-> <<>>, formats |-> <<>>]
          /\ \E n \in 0..MaxEntries : \E transformers \in [1..n -> TransformerDicts] :
                \E formats \in FormatDictLists :
                   summary_in = [transformers |-> transformers, formats |-> formats]
       \/ /\ pc = "summarize"
          /\ metadata \in ManifestDocuments
          /\ disk \in SummaryDisks
          /\ summary_in = NoSummaryInput
    /\ IdleValidate /\ IdleCompat /\ IdleFormat /\ IdleDialect /\ IdleHelp
    /\ IdleName /\ IdleSplit /\ IdleScan

PackageDeprecated ==
    /\ pc = "deprecated"
    /\ deprecated' = [done |-> TRUE,
                      value |-> package_deprecated(summary_in.transformers,
                                                   summary_in.formats)]
    /\ pc' = "decided"
    /\ UNCHANGED <<metadata, summary_in, summary, validateVars, compatVars, formatVars,
                   buildVars, dialectVars, helpVars, nameVars, splitVars, scanVars>>

SummarizeFpkg ==
    /\ pc = "summarize"
    /\ LET summarized == summarize_fpkg(Loaded(metadata), disk)
       IN /\ summary' = summarized.manifest
          /\ metadata' = Held(summarized.heap)
    /\ pc' = "summarized"
    /\ UNCHANGED <<summary_in, deprecated, validateVars, compatVars, formatVars,
                   buildVars, dialectVars, helpVars, nameVars, splitVars, scanVars>>

NextSummary == PackageDeprecated \/ SummarizeFpkg

SpecSummary == InitSummary /\ [][NextSummary]_vars

(***************************************************************************)
(* SpecName: a package file name is built from its parts and split again,  *)
(* or a given file name is split.                                          *)
(***************************************************************************)
InitName ==
    /\ metadata \in Packages
    /\ \/ /\ pc = "build_fpkg_filename"
          /\ \E publisher_uid \in PublisherUids, package_uid \in PackageUids,
                version \in PackageVersions :
                name_in = [built |-> TRUE,
                           parts |-> <<publisher_uid, package_uid, version>>,
                           filename |-> <<>>]
       \/ /\ pc = "split_fpkg_filename"
          /\ \E filename \in FileNames :
                name_in = [built |-> FALSE, parts |-> NoParts, filename |-> filename]
    /\ name_out = NotSplit
    /\ IdleValidate /\ IdleCompat /\ IdleFormat /\ IdleBuild /\ IdleDialect /\ IdleHelp
    /\ IdleSummary /\ IdleSplit /\ IdleScan

BuildFpkgFilename ==
    /\ pc = "build_fpkg_filename"
    /\ LET made == build_fpkg_filename(name_in.parts[1], name_in.parts[2], name_in.parts[3])
       IN IF made.exc = ""
          THEN /\ name_in' = [name_in EXCEPT !.filename = made.filename]
               /\ name_out' = name_out
               /\ pc' = "split_fpkg_filename"
          ELSE /\ name_in' = name_in
               /\ name_out' = [exc |-> made.exc, parts |-> NoParts]
               /\ pc' = "not_named"
    /\ UNCHANGED <<metadata, validateVars, compatVars, formatVars, buildVars,
                   dialectVars, helpVars, summaryVars, splitVars, scanVars>>

SplitFpkgFilename ==
    /\ pc = "split_fpkg_filename"
    /\ name_out' = split_fpkg_filename(name_in.filename)
    /\ pc' = "split"
    /\ UNCHANGED <<metadata, name_in, validateVars, compatVars, formatVars, buildVars,
                   dialectVars, helpVars, summaryVars, splitVars, scanVars>>

NextName == BuildFpkgFilename \/ SplitFpkgFilename

SpecName == InitName /\ [][NextName]_vars

(***************************************************************************)
(* SpecScan: the text of one transformer is scanned for its key-value      *)
(* pairs and its change log.                                               *)
(***************************************************************************)
InitScan ==
    /\ pc = "parse_transformer"
    /\ metadata \in Packages
    /\ fmx_text \in ScanContents
    /\ scan = NotScanned
    /\ IdleValidate /\ IdleCompat /\ IdleFormat /\ IdleBuild /\ IdleDialect /\ IdleHelp
    /\ IdleSummary /\ IdleName /\ IdleSplit

ParseTransformer ==
    /\ pc = "parse_transformer"
    /\ scan' = [done |-> TRUE, result |-> parse_transformer(fmx_text)]
    /\ pc' = "parsed_transformer"
    /\ UNCHANGED <<metadata, fmx_text, validateVars, compatVars, formatVars, buildVars,
                   dialectVars, helpVars, summaryVars, nameVars, splitVars>>

NextScan == ParseTransformer

SpecScan == InitScan /\ [][NextScan]_vars

(***************************************************************************)
(* SpecSplit: the versions of one legacy or compiled transformer file are  *)
(* iterated.                                                               *)
(***************************************************************************)
InitSplit ==
    /\ pc = "versions"
    /\ metadata \in Packages
    /\ \E n \in 0..MaxLines :
          \/ \E lines \in LegacyFmxFiles(n) : fmx_file = [cls |-> "FmxFile", lines |-> lines]
          \/ \E lines \in CustomFmxFiles(n) :
                fmx_file = [cls |-> "CustomTransformerFmxFile", lines |-> lines]
    /\ blocks = NotIterated
    /\ IdleValidate /\ IdleCompat /\ IdleFormat /\ IdleBuild /\ IdleDialect /\ IdleHelp
    /\ IdleSummary /\ IdleName /\ IdleScan

IterateVersions ==
    /\ pc = "versions"
    /\ blocks' = IteratedVersions(fmx_file)
    /\ pc' = "iterated"
    /\ UNCHANGED <<metadata, fmx_file, validateVars, compatVars, formatVars, buildVars,
                   dialectVars, helpVars, summaryVars, nameVars, scanVars>>

NextSplit == IterateVersions

SpecSplit == InitSplit /\ [][NextSplit]_vars

(***************************************************************************)
(* Properties of validate_transformer (Spec).                              *)
(***************************************************************************)
Validated == pc = "validated"

\* the file under validation, described from its content alone
Versions == xf_file.versions

ExpectedFqName == metadata.publisher_uid \o <<".">> \o metadata.uid \o <<".">> \o xf_entry.name

CompiledFile ==
    /\ xf_file.ext = "fmx"
    /\ xf_file.first_line \in {<<"#", "!">>, <<"F", "M", "W", "0", "0", "0", "1">>}

RecognizedFile == xf_file.ext \in {"fmx", "fmxj"}

\* version i passes every check made on all versions
PassesLoop(i) ==
    /\ Versions[i].version >= 1
    /\ Versions[i].name = ExpectedFqName
    /\ CompiledFile =>
          /\ Versions[i].insert_mode = "\"Linked Always\""
          /\ Versions[i].build_num >= metadata.minimum_fme_build

AllPassLoop == \A i \in 1..Len(Versions) : PassesLoop(i)

\* version i is the first, in file order, to fail a check made on all versions
FirstToFail(i) ==
    /\ i \in 1..Len(Versions)
    /\ ~PassesLoop(i)
    /\ \A j \in 1..(i - 1) : PassesLoop(j)

\* C1: validate_transformer fails unless every version of the file, not only
\* the newest, carries the name <publisher_uid>.<uid>.<entry name>; the
\* name-mismatch failure names the expected and the actual name, and it is the
\* failure raised when the mismatch is the first defect met in file order.
C1_EveryVersionNameChecked ==
    Validated /\ RecognizedFile =>
        /\ (\E i \in 1..Len(Versions) : Versions[i].name # ExpectedFqName)
              => outcome.kind # "ok"
        /\ \A i \in 1..Len(Versions) :
              (FirstToFail(i) /\ Versions[i].version >= 1
                  /\ Versions[i].name # ExpectedFqName)
              => /\ outcome.kind = "ValueError"
                 /\ outcome.msg = "Name must be"
                 /\ outcome.expected = ExpectedFqName
                 /\ outcome.actual = Versions[i].name
        /\ outcome.msg = "Name must be"
              => /\ outcome.expected = ExpectedFqName
                 /\ outcome.actual # ExpectedFqName
                 /\ \E i \in 1..Len(Versions) : Versions[i].name = outcome.actual

\* a second, older version with the wrong name fails a file whose newest
\* version is in order
C1_Witness ==
    /\ Validated
    /\ Len(Versions) = 2
    /\ PassesLoop(1)
    /\ Versions[1].version = xf_entry.version
    /\ Versions[2].version >= 1
    /\ Versions[2].name # ExpectedFqName
    /\ outcome.msg = "Name must be"
    /\ outcome.actual = Versions[2].name

\* C2: the first version in file order is the newest whatever the version
\* numbers: when it does not carry the manifest entry's version N the call
\* fails, with "Missing version N" once every version passed the checks made
\* on all versions, even if a later version carries N.
C2_FirstVersionIsNewest ==
    Validated /\ RecognizedFile /\ Versions # <<>> =>
        /\ Versions[1].version # xf_entry.version => outcome.kind # "ok"
        /\ (AllPassLoop /\ Versions[1].version # xf_entry.version)
              => /\ outcome.kind = "ValueError"
                 /\ outcome.msg = "Missing version"
                 /\ outcome.n = xf_entry.version
        /\ outcome.msg = "Missing version"
              => Versions[1].version # xf_entry.version

\* the later version carries N, the first one does not
C2_Witness ==
    /\ Validated
    /\ Len(Versions) = 2
    /\ AllPassLoop
    /\ Versions[1].version = 1
    /\ Versions[2].version = 2
    /\ xf_entry.version = 2
    /\ outcome.msg = "Missing version"
    /\ outcome.n = 2

\* the newest version is reached by the python-compatibility check
ReachesCompatCheck ==
    /\ Validated /\ RecognizedFile /\ Versions # <<>>
    /\ AllPassLoop
    /\ Versions[1].version = xf_entry.version
    /\ Versions[1].python_compatibility # None

\* C3: a newest version whose python-compatibility token is invalid raises
\* TransformerPythonCompatError for a legacy or JSON file and
\* CustomTransformerPythonCompatError for a compiled one, each carrying the
\* manifest entry's name; 2or3 is accepted for a compiled file and rejected
\* for the others, 27 is rejected for both, 36 is accepted for both.
C3_CompatErrorPerDialect ==
    ReachesCompatCheck =>
        LET token == Versions[1].python_compatibility
        IN /\ token = <<"3", "6">> => outcome.kind = "ok"
           /\ (CompiledFile /\ token = <<"2", "o", "r", "3">>) => outcome.kind = "ok"
           /\ (CompiledFile /\ token = <<"2", "7">>)
                 => /\ outcome.kind = "CustomTransformerPythonCompatError"
                    /\ outcome.expected = xf_entry.name
           /\ (~CompiledFile /\ token \in {<<"2", "7">>, <<"2", "o", "r", "3">>})
                 => /\ outcome.kind = "TransformerPythonCompatError"
                    /\ outcome.expected = xf_entry.name

\* a compiled file declaring 27
C3_Witness ==
    /\ ReachesCompatCheck
    /\ CompiledFile
    /\ Versions[1].python_compatibility = <<"2", "7">>
    /\ outcome.kind = "CustomTransformerPythonCompatError"

\* C5: a compiled file fails unless every version has insert_mode
\* "Linked Always" (quotes included) and build_num >= minimum_fme_build; the
\* failure is the insert-mode or build failure when that is the first defect
\* met; no legacy or JSON file ever fails with either.
C5_CompiledChecksEveryVersion ==
    Validated /\ RecognizedFile =>
        /\ (CompiledFile /\ \E i \in 1..Len(Versions) :
                \/ Versions[i].insert_mode # "\"Linked Always\""
                \/ Versions[i].build_num < metadata.minimum_fme_build)
              => outcome.kind # "ok"
        /\ \A i \in 1..Len(Versions) :
              (CompiledFile /\ FirstToFail(i) /\ Versions[i].version >= 1
                  /\ Versions[i].name = ExpectedFqName)
              => /\ outcome.kind = "ValueError"
                 /\ IF Versions[i].insert_mode # "\"Linked Always\""
                    THEN /\ outcome.msg = "Custom transformer Insert Mode must be"
                         /\ outcome.actual = <<Versions[i].insert_mode>>
                    ELSE outcome.msg = "Custom transformer created with FME build older"
        /\ ~CompiledFile
              => outcome.msg \notin {"Custom transformer Insert Mode must be",
                                     "Custom transformer created with FME build older"}

\* an older version built before minimum_fme_build fails a compiled file whose
\* newest version is in order
C5_Witness ==
    /\ Validated
    /\ CompiledFile
    /\ Len(Versions) = 2
    /\ PassesLoop(1)
    /\ Versions[2].version >= 1
    /\ Versions[2].name = ExpectedFqName
    /\ Versions[2].insert_mode = "\"Linked Always\""
    /\ Versions[2].build_num < metadata.minimum_fme_build
    /\ outcome.msg = "Custom transformer created with FME build older"

\* C6: validate_transformer raises nothing on a JSON-dialect file whose
\* newest version has no python-compatibility key and whose names and version
\* agree with the manifest entry.
C6_FmxjWithoutCompatKeySucceeds ==
    (/\ Validated
     /\ xf_file.ext = "fmxj"
     /\ Versions # <<>>
     /\ AllPassLoop
     /\ Versions[1].version = xf_entry.version
     /\ Versions[1].python_compatibility = None)
    => outcome.kind = "ok"

(***************************************************************************)
(* Properties of is_valid_python_compatibility (SpecCompat).               *)
(***************************************************************************)
\* the token is a dotted-numeric version whose first number is at least 35
AtLeastFloor(tok) ==
    /\ tok # <<>>
    /\ \A i \in 1..Len(tok) : tok[i] \in Digits \cup {"."}
    /\ tok[1] # "." /\ tok[Len(tok)] # "."
    /\ \A i \in 1..(Len(tok) - 1) : ~(tok[i] = "." /\ tok[i + 1] = ".")
    /\ LET dots == {i \in 1..Len(tok) : tok[i] = "."}
           head == IF dots = {} THEN tok ELSE SubSeq(tok, 1, Min(dots) - 1)
       IN IntOf(head) >= 35

\* C4: is_valid_python_compatibility(token) is true exactly when the token
\* starts with 3 and, parsed as a version, is at least 35: 35, 36, 37 are
\* valid; 26, 27, 34, 3.8.9, 2or3 and ArcGISDesktop are not.
C4_ValidIffPython3AtLeast35 ==
    (pc = "compat_done" /\ compat_arg # None) =>
        /\ compat.exc = ""
        /\ compat.value <=> (compat_arg # <<>> /\ compat_arg[1] = "3" /\ AtLeastFloor(compat_arg))
        /\ compat_arg \in {<<"3", "5">>, <<"3", "6">>, <<"3", "7">>} => compat.value
        /\ compat_arg \in {<<"2", "6">>, <<"2", "7">>, <<"3", "4">>,
                           <<"3", ".", "8", ".", "9">>, <<"2", "o", "r", "3">>,
                           <<"A", "r", "c", "G", "I", "S", "D", "e", "s", "k", "t", "o", "p">>}
              => ~compat.value

\* the floor itself is valid
C4_Witness ==
    /\ pc = "compat_done"
    /\ compat_arg = <<"3", "5">>
    /\ compat.value

(***************************************************************************)
(* Properties of check_formatinfo and parse_formatinfo (SpecFormat).       *)
(***************************************************************************)
\* the number of fields of a line: one more than its "|" characters
FieldCount(l) == Cardinality({i \in 1..Len(l) : l[i] = "|"}) + 1

\* the line is neither a ";" comment nor blank
Substantive(l) ==
    /\ \E i \in 1..Len(l) : l[i] \notin {" ", "\n", "\t", "\r"}
    /\ l[1] # ";"

\* the line decodes and its first field is the name
DecodesTo(l, name) ==
    /\ FieldCount(l) \in {17, 18}
    /\ Len(l) > Len(name)
    /\ SubSeq(l, 1, Len(name)) = name
    /\ l[Len(name) + 1] = "|"

\* C8: the format-info check decodes the first line of the .db file that is
\* neither a ";" comment nor blank and ignores every later line; a file of
\* comment lines only fails.
C8_FirstSubstantiveLineDecides ==
    pc = "checked" =>
        LET substantive == {i \in 1..Len(db_lines) : Substantive(db_lines[i])}
        IN IF substantive = {} THEN db_check.kind # "ok"
           ELSE db_check.kind = "ok"
                   <=> DecodesTo(db_lines[Min(substantive)], <<"E", ".", "P", ".", "M">>)

\* C9: parse_formatinfo accepts a line exactly when splitting it on "|"
\* yields 17 or 18 fields; for any other count it raises a decode error that
\* reports the count found and the 17 required, and returns no record.
C9_SeventeenOrEighteenFields ==
    pc = "parsed" =>
        /\ formatinfo.exc = "" <=> FieldCount(info_line) \in {17, 18}
        /\ formatinfo.exc = "" => Len(formatinfo.fields) = 18
        /\ formatinfo.exc # ""
              => /\ formatinfo.exc = "ValueError"
                 /\ formatinfo.fields = <<>>
                 /\ formatinfo.actual = FieldCount(info_line)
                 /\ formatinfo.expects = 17

\* a line of 19 fields is refused
C9_Witness ==
    /\ pc = "parsed"
    /\ FieldCount(info_line) = 19
    /\ formatinfo.exc = "ValueError"
    /\ formatinfo.actual = 19

\* C10 as stated: for a line of exactly 17 fields, joining the fields of
\* parse_formatinfo(line) with "|" reproduces the line byte for byte.
C10_JoinReproducesLine ==
    (pc = "parsed" /\ FieldCount(info_line) = 17)
        => Join(formatinfo.fields, "|") = info_line

\* C10 amended: for a line of exactly 17 fields, parse_formatinfo returns 18
\* fields; the first 17 joined with "|" reproduce the line without its
\* leading and trailing whitespace, and the 18th, FORMAT_CATEGORIES, is empty.
C10_JoinReproducesStrippedRequiredFields ==
    (pc = "parsed" /\ FieldCount(info_line) = 17) =>
        /\ formatinfo.exc = ""
        /\ Len(formatinfo.fields) = 18
        /\ formatinfo.fields[18] = <<>>
        /\ LET solid == {i \in 1..Len(info_line) : info_line[i] \notin {" ", "\n", "\t", "\r"}}
               first == CHOOSE i \in solid : \A j \in solid : i <= j
               last == CHOOSE i \in solid : \A j \in solid : j <= i
           IN Join(SubSeq(formatinfo.fields, 1, 17), "|") = SubSeq(info_line, first, last)

\* a 17-field line read from a file, with its line end
C10_Witness ==
    /\ pc = "parsed"
    /\ FieldCount(info_line) = 17
    /\ info_line[Len(info_line)] = "\n"
    /\ formatinfo.exc = ""
    /\ Join(SubSeq(formatinfo.fields, 1, 17), "|") \o <<"\n">> = info_line

(***************************************************************************)
(* Properties of FMEPackager.__init__ and build (SpecBuild).               *)
(***************************************************************************)
\* two transformer entries share a name and differ in their declared version
SameNameOtherVersion(i, j) ==
    /\ metadata.transformers[i].name = metadata.transformers[j].name
    /\ metadata.transformers[i].version # metadata.transformers[j].version

\* C7: duplicate component names are rejected before any component file is
\* opened: with two transformer entries of one name that differ in version
\* only, no transformer file is ever read, and the package fails with
\* "<lower-cased name> is defined in transformers more than once".
C7_DuplicateNamesRejectedBeforeParsing ==
    \A i, j \in 1..Len(metadata.transformers) :
        (/\ SameNameOtherVersion(i, j)
         /\ \A k, l \in 1..Len(metadata.transformers) :
               k # l => metadata.transformers[k] # metadata.transformers[l])
        => /\ build.files_read = <<>>
           /\ pc \in {"init_failed", "built"}
                 => /\ build.error.msg = "is defined in transformers more than once"
                    /\ build.error.actual = Lower(metadata.transformers[i].name)

(***************************************************************************)
(* Properties of the transformer dialect decoders (SpecDialect).           *)
(***************************************************************************)
HeaderDecoded == pc = "header_done"

\* the category cell holds a comma, so its writer quoted it
QuotedCategory == Len(header_in.categories) >= 2

\* C11: a header line whose category cell is quoted and holds commas decodes
\* with that cell as one field: guid, insert_mode, build_num, deprecated,
\* pyver and data_processing_type are the cells written at their positions,
\* and the categories are the elements of the cell.
C11_QuotedCategoryIsOneField ==
    (HeaderDecoded /\ QuotedCategory) =>
        /\ decoded.exc = "ok"
        /\ decoded.header.guid = header_in.guid
        /\ decoded.header.insert_mode = header_in.insert_mode
        /\ decoded.header.build_num = int(header_in.build_num)
        /\ decoded.header.deprecated = header_in.deprecated
        /\ decoded.header.pyver = header_in.pyver
        /\ decoded.header.data_processing_type =
              (IF header_in.nfields = 16 /\ header_in.data_processing_type # <<>>
               THEN <<JsonStr(header_in.data_processing_type)>> ELSE <<>>)
        /\ decoded.categories = header_in.categories

Resolved == pc = "dpt_done"

PlainWords == {Source, Destination, Both}

\* the truthy 'then' values of the 'if' entries of a conditional object and
\* its truthy 'default'
TagsOf(o) ==
    LET members(d) == {d.members[i] : i \in 1..Len(d.members)}
        entries == UNION {{m.value.items[i] : i \in 1..Len(m.value.items)} :
                             m \in {x \in members(o) : x.key = "if"}}
        thens == UNION {{m.value : m \in {x \in members(c) : x.key = "then"}} :
                           c \in entries}
        defaults == {m.value : m \in {x \in members(o) : x.key = "default"}}
    IN {t \in thens \cup defaults : t.kind = "str" /\ t.s # <<>>}

\* list holds exactly the given tags, each once, in alphabetical order
SortedListOf(list, tags) ==
    /\ {list[i] : i \in 1..Len(list)} = tags
    /\ Len(list) = Cardinality(tags)
    /\ \A i, j \in 1..Len(list) : i < j => TextLess(list[i].s, list[j].s)

C13_SameListInEveryDialect ==
    Resolved =>
        /\ dpt.custom.exc = "ok"
        /\ dpt.custom.value = dpt.fmx
        /\ dpt.fmx = dpt.fmxj

\* the JSON values that are neither a string nor an object
OtherShapes ==
    {JsonNum(0), JsonNum(5), JsonTrue, JsonFalse, JsonNull,
     JsonList(<<>>), JsonList(<<JsonStr(Source)>>)}

\* C14: a raw value that is the JSON text of a number, a list, a boolean or
\* null resolves to the empty list.
C14_OtherShapesResolveToEmpty ==
    (Resolved /\ raw_dpt.present /\ \E v \in OtherShapes : raw_dpt.text = JsonText(v)) =>
        /\ dpt.fmx = <<>>
        /\ dpt.fmxj = <<>>

(***************************************************************************)
(* Properties of get_format_visibility (SpecFormat).                       *)
(***************************************************************************)
DerivedFrom(direction, visible) ==
    /\ pc = "derived"
    /\ \E n \in {num_required_columns, num_columns} :
          info_line = VisibilityLine(direction, visible, n)

\* C15: get_format_visibility gives '' for VISIBLE=NO, 'rw', 'r', 'w' for
\* BOTH with YES, INPUT, OUTPUT, 'r' for INPUT with YES or INPUT, 'w' for
\* OUTPUT with YES or OUTPUT, and raises for INPUT/OUTPUT and OUTPUT/INPUT.
C15_VisibilityTable ==
    /\ \A direction \in Directions :
          DerivedFrom(direction, NO) => visible_as = [exc |-> "ok", value |-> <<>>]
    /\ DerivedFrom(BOTH, YES) => visible_as = [exc |-> "ok", value |-> <<"r", "w">>]
    /\ DerivedFrom(BOTH, INPUT) => visible_as = [exc |-> "ok", value |-> <<"r">>]
    /\ DerivedFrom(BOTH, OUTPUT) => visible_as = [exc |-> "ok", value |-> <<"w">>]
    /\ \A visible \in {YES, INPUT} :
          DerivedFrom(INPUT, visible) => visible_as = [exc |-> "ok", value |-> <<"r">>]
    /\ \A visible \in {YES, OUTPUT} :
          DerivedFrom(OUTPUT, visible) => visible_as = [exc |-> "ok", value |-> <<"w">>]
    /\ (DerivedFrom(INPUT, OUTPUT) \/ DerivedFrom(OUTPUT, INPUT)) =>
          visible_as.exc = "ValueError"

C15_Witness ==
    /\ DerivedFrom(INPUT, OUTPUT)
    /\ visible_as.exc = "ValueError"

(***************************************************************************)
(* Properties of the help index (SpecHelp).                                *)
(***************************************************************************)
Indexed == pc = "indexed"

IdentOf == metadata.publisher_uid \o <<"_">> \o metadata.uid

TransformerKey(name) == <<"f", "m", "x", "_">> \o IdentOf \o <<"_">> \o name

TransformerKeys ==
    {TransformerKey(metadata.transformers[i].name) : i \in 1..Len(metadata.transformers)}

\* the letters of a format's direction string, 'rw' by default
LettersOf(name) ==
    IF \E item \in directions_arg : item[1] = name
    THEN LET text == (CHOOSE item \in directions_arg : item[1] = name)[2]
         IN {text[i] : i \in 1..Len(text)}
    ELSE {"r", "w"}

\* the keys of a format whose publisher/uid/name segment is seg
FormatKeyFamily(seg, letters) ==
    {<<"r", "w", "_">> \o seg \o <<"_", "i", "n", "d", "e", "x">>, <<"r", "w", "_">> \o seg \o <<"_", "f", "e", "a", "t", "u", "r", "e", "_", "r", "e", "p">>,
     <<"f", "t", "_">> \o seg \o <<"_", "u", "s", "e", "r", "_", "a", "t", "t", "r">>}
    \cup {<<"p", "a", "r", "a", "m", "_">> \o seg \o <<"_", d>> : d \in letters}
    \cup {<<"f", "t", "_">> \o seg \o <<"_", "p", "a", "r", "a", "m", "_">> \o <<d>> : d \in letters}

LowerSegment(name) == Lower(IdentOf \o <<"_">> \o name)

Underscored(text) == [i \in 1..Len(text) |-> IF text[i] = "-" THEN "_" ELSE text[i]]

FormatsOf == {metadata.formats[i].name : i \in 1..Len(metadata.formats)}

\* C16: the expected help index has one key fmx_<publisher>_<uid>_<name>,
\* mapped to /<name>.htm, per manifest transformer and, per manifest format,
\* the keys rw_..._index, rw_..._feature_rep, ft_..._user_attr and, per
\* letter d of its direction string, param_..._<d> and ft_..._param_<d>,
\* and no other key: 5 keys for a format of direction 'r' or 'w', 7 for 'rw'.
C16_ExpectedKeysExactly ==
    Indexed =>
        /\ \A i \in 1..Len(metadata.transformers) :
              LET name == metadata.transformers[i].name
              IN <<TransformerKey(name), <<"/">> \o name \o <<".", "h", "t", "m">>>> \in help_index
        /\ \/ Keys(help_index) =
                TransformerKeys
                \cup UNION {FormatKeyFamily(LowerSegment(f), LettersOf(f)) : f \in FormatsOf}
           \/ Keys(help_index) =
                TransformerKeys
                \cup UNION {FormatKeyFamily(Underscored(LowerSegment(f)), LettersOf(f)) :
                               f \in FormatsOf}
        /\ \A f \in HelpFormatNames :
              (metadata.transformers = <<>> /\ metadata.formats = <<[name |-> f]>>) =>
                  /\ LettersOf(f) \in {{"r"}, {"w"}} => Cardinality(Keys(help_index)) = 5
                  /\ LettersOf(f) = {"r", "w"} => Cardinality(Keys(help_index)) = 7

C16_Witness ==
    /\ Indexed
    /\ Len(metadata.transformers) = 1
    /\ metadata.formats = <<[name |-> <<"F">>]>>
    /\ directions_arg = {<<<<"F">>, <<"r">>>>}
    /\ Cardinality(Keys(help_index)) = 6

\* C17: the publisher/uid/name segment of every format key is lower-cased
\* with its hyphens replaced by underscores, and a transformer key keeps
\* the hyphen and the case of the name.
C17_FormatSegmentHasNoHyphen ==
    Indexed =>
        /\ \A f \in FormatsOf :
              FormatKeyFamily(Underscored(LowerSegment(f)), LettersOf(f))
                  \subseteq Keys(help_index)
        /\ TransformerKeys \subseteq Keys(help_index)

IndexValidated == pc = "index_validated"

TwoColumns == \A i \in 1..Len(help_dir.rows) : Len(help_dir.rows[i]) = 2

\* the keys present in package_help.csv
Present == {help_dir.rows[i][1] : i \in 1..Len(help_dir.rows)}

\* the keys the manifest calls for
Expected ==
    TransformerKeys \cup UNION {FormatKeyFamily(LowerSegment(f), {"r", "w"}) : f \in FormatsOf}

\* the failure is about a row or a target, not about the set of keys
TargetFailure ==
    \/ help_check.kind \in {"IndexError", "FileNotFoundError"}
    \/ help_check.msg \in {"Path must start with /", "must be htm(l) or md"}

\* C18: validate_index succeeds only if the keys present equal the expected
\* keys; with every row and target in order, a present key that is not
\* expected fails naming the unrecognized keys, and otherwise an expected
\* key that is absent fails naming the missing keys.
C18_KeySetsMustBeEqual ==
    IndexValidated =>
        /\ help_check.kind = "ok" => Present = Expected
        /\ (Present \ Expected # {}) =>
              /\ help_check.kind # "ok"
              /\ ~TargetFailure =>
                    /\ help_check.msg = "Unrecognized help"
                    /\ help_check.keys = Present \ Expected
        /\ (Expected \ Present # {}) =>
              /\ help_check.kind # "ok"
              /\ (~TargetFailure /\ Present \subseteq Expected) =>
                    /\ help_check.msg = "Missing help"
                    /\ help_check.keys = Expected \ Present

C18_Witness ==
    /\ IndexValidated
    /\ help_dir.rows = <<>>
    /\ help_check.msg = "Missing help"
    /\ help_check.keys = {ContextOfX}

IsUrl(target) == StartsWith(target, <<"h", "t", "t", "p">>)

\* the targets of the rows of one key, in file order
TargetsOf(key) ==
    LET at == SelectSeq([i \in 1..Len(help_dir.rows) |-> i],
                        LAMBDA i : help_dir.rows[i][1] = key)
    IN [n \in 1..Len(at) |-> help_dir.rows[at[n]][2]]

\* C19: per key the accepted rows are one local path, a URL with exactly
\* one local path, or a URL alone at or above the build with URL support; a
\* lone URL below it fails with 'Minimum build required for URL support
\* is', and more than two rows of one key fail with 'Invalid entries for'.
C19_UrlRowsPolicy ==
    (IndexValidated /\ TwoColumns) =>
        /\ (\E key \in Present : Len(TargetsOf(key)) > 2) =>
              help_check.msg = "Invalid entries for"
        /\ ((\A key \in Present : Len(TargetsOf(key)) <= 2)
            /\ (\E key \in Present : TargetsOf(key) = <<Url>>)
            /\ metadata.minimum_fme_build < MIN_BUILD_WITH_URL_SUPPORT) =>
              help_check.msg = "Minimum build required for URL support is"
        /\ (Expected = {ContextOfX} /\ help_dir.rows = <<<<ContextOfX, Url>>>>
            /\ metadata.minimum_fme_build >= MIN_BUILD_WITH_URL_SUPPORT) =>
              help_check.kind = "ok"
        /\ (Expected = {ContextOfX}
            /\ help_dir.rows \in {<<<<ContextOfX, Url>>, <<ContextOfX, <<"/", "X", ".", "h", "t", "m">>>>>>,
                                  <<<<ContextOfX, <<"/", "X", ".", "h", "t", "m">>>>, <<ContextOfX, Url>>>>}) =>
              help_check.kind = "ok"

\* the target is a path from the doc root that reaches an existing file
\* without leaving the doc root
FileUnderRoot(target) ==
    LET reached == Walk(help_dir.tree, <<>>, Parts(LStripSlash(target)))
    IN /\ reached.found
       /\ [path |-> reached.at, dir |-> FALSE] \in help_dir.tree
       /\ reached.at # <<>>
       /\ reached.at[1] # Up

\* C20: validate_index fails when a local-path target does not start with
\* '/', does not reach an existing file under the doc root, or has an
\* extension other than htm, html, md.
C20_LocalTargetsStayUnderRoot ==
    (IndexValidated /\ TwoColumns) =>
        \A i \in 1..Len(help_dir.rows) :
            LET target == help_dir.rows[i][2]
            IN (/\ ~IsUrl(target)
                /\ \/ ~StartsWith(target, <<"/">>)
                   \/ ~FileUnderRoot(target)
                   \/ SuffixLower(Parts(LStripSlash(target))) \notin {<<"h", "t", "m">>, <<"h", "t", "m", "l">>, <<"m", "d">>})
               => help_check.kind # "ok"

(***************************************************************************)
(* Properties of HelpBuilder.build_index (SpecHelp).                       *)
(***************************************************************************)
IndexBuilt == pc = "index_built"

\* the conventionally named doc of an expected context: its target without
\* the leading slash
DocNameOf(context) ==
    Tail((CHOOSE item \in get_expected_help_index(metadata, {}) : item[1] = context)[2])

HasDoc(context) == DocFile(DocNameOf(context)) \in help_dir.tree

\* C21: build_index writes one row [key, path] for exactly the expected keys
\* whose conventionally named doc file exists in the doc directory, in
\* ascending key order; it warns about every other expected key, writes no
\* row for it and does not fail.
C21_RowsForExistingDocsOnly ==
    IndexBuilt =>
        LET rows == help_dir.rows
            expected == get_expected_help_index(metadata, {})
        IN /\ help_check = HelpOk
           /\ {rows[i] : i \in 1..Len(rows)}
                 = {item \in expected : HasDoc(item[1])}
           /\ \A i \in 1..(Len(rows) - 1) : TextLess(rows[i][1], rows[i + 1][1])
           /\ {warned[i] : i \in 1..Len(warned)}
                 = {key \in Keys(expected) : ~HasDoc(key)}
           /\ Len(warned) = Cardinality({key \in Keys(expected) : ~HasDoc(key)})

C21_Witness ==
    /\ IndexBuilt
    /\ Len(help_dir.rows) >= 2
    /\ Len(warned) >= 1
    /\ \E i \in 1..Len(warned) :
          [path |-> <<DocNameOf(warned[i])>>, dir |-> TRUE] \in help_dir.tree

(***************************************************************************)
(* Properties of pack followed by verify (SpecBuild).                      *)
(***************************************************************************)
Verified == pc = "verified"

\* C22: the archive of a directory that packed successfully is reported
\* valid by verify, which runs the same build validation on the unpacked
\* archive.
C22_PackedArchiveVerifies ==
    Verified /\ EndsWith(Lower(verify_arg.name), <<".", "f", "p", "k", "g">>) =>
        /\ verdict.success
        /\ verdict.cause = FMEPackagerBuild(metadata, Unpacked(fpkg, disk)).error

(***************************************************************************)
(* Properties of the summary (SpecSummary).                                *)
(***************************************************************************)
\* C23: the manifest tree the loaded metadata holds is never changed: no
\* operation adds, removes or replaces an entry of it.
C23_ManifestNeverChanges == [][metadata' = metadata]_vars

Decided == pc = "decided"

\* the versions of a transformer dict, and its highest one (the version
\* numbers of one transformer differ)
VersionsOf(transformer) ==
    IF "versions" \in DOMAIN transformer
    THEN {transformer.versions[k] : k \in 1..Len(transformer.versions)}
    ELSE {}

ShownUnlessHidden(entry) == IF "visible" \in DOMAIN entry THEN entry.visible ELSE TRUE

HighestShown(transformer) ==
    \E v \in VersionsOf(transformer) :
       /\ \A w \in VersionsOf(transformer) : w.version <= v.version
       /\ ShownUnlessHidden(v)

\* C25: package_deprecated is true exactly when the package has a
\* transformer or a format, no transformer's highest version is visible and
\* no format is visible, an entry without 'visible' counting as visible.
C25_DeprecatedIffNothingShown ==
    Decided =>
        LET transformers == summary_in.transformers
            formats == summary_in.formats
        IN deprecated.value
           <=> /\ Len(transformers) + Len(formats) >= 1
               /\ \A i \in 1..Len(transformers) : ~HighestShown(transformers[i])
               /\ \A i \in 1..Len(formats) : ~ShownUnlessHidden(formats[i])

C25_Witness ==
    /\ Decided
    /\ deprecated.value
    /\ \E i \in 1..Len(summary_in.transformers) :
          \E v \in VersionsOf(summary_in.transformers[i]) : ShownUnlessHidden(v)
    /\ summary_in.formats # <<>>

(***************************************************************************)
(* Properties of the version blocks (SpecSplit).                           *)
(***************************************************************************)
CustomIterated == pc = "iterated" /\ fmx_file.cls = "CustomTransformerFmxFile"

LegacyIterated == pc = "iterated" /\ fmx_file.cls = "FmxFile"

\* the 0-based indexes of the decodable lines that start with the marker
MarkerIndexes(marker) ==
    {i \in 0..(Len(fmx_file.lines) - 1) :
        /\ fmx_file.lines[i + 1].utf8
        /\ Len(fmx_file.lines[i + 1].text) >= Len(marker)
        /\ SubSeq(fmx_file.lines[i + 1].text, 1, Len(marker)) = marker}

\* the k-th smallest of a set of indexes
Nth(indexes, k) == CHOOSE i \in indexes : Cardinality({j \in indexes : j < i}) = k - 1

\* the lines of the file with 0-based index from start up to and excluding stop
LinesBetween(start, stop) ==
    [j \in 1..(IF stop > start THEN stop - start ELSE 0) |-> fmx_file.lines[start + j]]

\* where the k-th block ends: before the line ahead of the next marker line
\* less `extra`, or before the file's last line
BlockStop(indexes, k, extra) ==
    IF k = Cardinality(indexes) THEN Len(fmx_file.lines) - 1
    ELSE Nth(indexes, k + 1) - 1 - extra

\* C24 as stated: a compiled version is encrypted exactly when the first
\* line of the whole file is the magic token FMW0001, so every version of
\* one file has the same value.
C24_EncryptedIffFileStartsWithMagic ==
    CustomIterated =>
        \A k \in 1..Len(blocks.yielded) :
            blocks.yielded[k].is_encrypted
                <=> (Strip(fmx_file.lines[1].text) = FMW0001)

\* C24 amended: a compiled version is encrypted exactly when the first line
\* of its own block, the line right before its marker line, is the magic
\* token once surrounding whitespace is removed.
C24_EncryptedIffBlockStartsWithMagic ==
    CustomIterated =>
        \A k \in 1..Len(blocks.yielded) :
            blocks.yielded[k].is_encrypted
                <=> (fmx_file.lines[Nth(MarkerIndexes(TRANSFORMER_BEGIN), k)].text
                        \in {FMW0001, FMW0001 \o <<"\n">>})

\* two versions of one file, the first encrypted and the second not
C24_Witness ==
    /\ CustomIterated
    /\ Len(blocks.yielded) = 2
    /\ blocks.yielded[1].is_encrypted
    /\ ~blocks.yielded[2].is_encrypted

\* C29 as stated: each file yields one version per marker line, none of
\* them raising, with the stated block for each.
C29_OneVersionPerMarker ==
    /\ LegacyIterated =>
          /\ blocks.exc = ""
          /\ Len(blocks.yielded) = Cardinality(MarkerIndexes(TRANSFORMER_NAME))
    /\ CustomIterated =>
          /\ blocks.exc = ""
          /\ Len(blocks.yielded) = Cardinality(MarkerIndexes(TRANSFORMER_BEGIN))

\* C29 amended: the versions yielded are those of the leading marker lines,
\* in file order, each built from the stated block (legacy: from the marker
\* line to before the line ahead of the next marker, compiled: from the
\* line before the marker to two lines ahead of the next marker, the last
\* block of either to before the file's last line); an undecodable line is
\* no marker; the iteration ends early, with the exception of the
\* constructor, exactly when it yields fewer versions than there are
\* marker lines.
C29_BlocksOfLeadingMarkers ==
    /\ LegacyIterated =>
          LET indexes == MarkerIndexes(TRANSFORMER_NAME)
          IN /\ Len(blocks.yielded) <= Cardinality(indexes)
             /\ (blocks.exc = "") <=> (Len(blocks.yielded) = Cardinality(indexes))
             /\ \A k \in 1..Len(blocks.yielded) :
                   blocks.yielded[k].lines
                       = LinesBetween(Nth(indexes, k), BlockStop(indexes, k, 0))
    /\ CustomIterated =>
          LET indexes == MarkerIndexes(TRANSFORMER_BEGIN)
          IN /\ Len(blocks.yielded) <= Cardinality(indexes)
             /\ (blocks.exc = "") <=> (Len(blocks.yielded) = Cardinality(indexes))
             /\ \A k \in 1..Len(blocks.yielded) :
                   blocks.yielded[k].lines
                       = LinesBetween(Nth(indexes, k) - 1, BlockStop(indexes, k, 1))

\* a compiled file with two versions yielded and a line of undecodable
\* bytes that starts with the marker's bytes
C29_Witness ==
    /\ CustomIterated
    /\ blocks.exc = ""
    /\ Len(blocks.yielded) = 2
    /\ \E i \in 1..Len(fmx_file.lines) :
          ~fmx_file.lines[i].utf8 /\ StartsWith(fmx_file.lines[i].text, TRANSFORMER_BEGIN)

(***************************************************************************)
(* Properties of the package file names (SpecName).                        *)
(***************************************************************************)
\* C26: splitting the file name built from non-empty parts gives the parts
\* back, all three non-empty.
C26_SplitInvertsBuild ==
    (pc = "split" /\ name_in.built) =>
        /\ name_out.exc = ""
        /\ name_out.parts = name_in.parts
        /\ \A i \in 1..3 : name_out.parts[i] # <<>>

(***************************************************************************)
(* Properties of the build directory (SpecBuild).                          *)
(***************************************************************************)
BuildRan == pc \in {"built", "packed", "verified"}

\* the checks of _copy_transformers on the i-th transformer entry
TransformerPasses(i) ==
    LET transformer == metadata.transformers[i]
        found == disk.transformers[transformer.name]
    IN /\ transformer.version >= 1
       /\ found.doc
       /\ found.fmx.ext # ""
       /\ validate_transformer(metadata, found.fmx, transformer).kind = "ok"

\* the checks of _copy_formats on the .fmf and on the .db of the j-th
\* format entry
FmfPasses(j) ==
    LET found == disk.formats[metadata.formats[j].name]
    IN /\ found.doc
       /\ found.fmf.exists
       /\ check_fmf(metadata, metadata.formats[j], found.fmf.contents).kind = "ok"

DbPasses(j) ==
    LET found == disk.formats[metadata.formats[j].name]
    IN /\ FmfPasses(j)
       /\ found.db.exists
       /\ check_formatinfo(metadata, metadata.formats[j], found.db.lines).kind = "ok"

Declares(entries, name) == \E i \in 1..Len(entries) : entries[i].name = name

FirstFailing(passes(_), n) ==
    IF \A i \in 1..n : passes(i) THEN n + 1
    ELSE CHOOSE i \in 1..n : ~passes(i) /\ \A j \in 1..(i - 1) : passes(j)

\* what the tree copies and the required files put into the build directory
TreeCopied(folder) == {PathOf(name, "md") : name \in {n \in DOMAIN folder : folder[n].doc}}

RequiredCopied ==
    {PathOf(<<>>, "package.yml"), PathOf(<<>>, "README.md"), PathOf(<<>>, "CHANGES.md")}

\* the files of the j-th format entry copied before its first failing check
FormatFilesCopied(j) ==
    LET name == metadata.formats[j].name
        found == disk.formats[name]
    IN IF ~found.doc THEN {}
       ELSE (IF found.fms THEN {PathOf(name, "fms")} ELSE {})
            \cup (IF FmfPasses(j) THEN {PathOf(name, "fmf")} ELSE {})
            \cup (IF DbPasses(j) THEN {PathOf(name, "db")} ELSE {})

\* C28: when a component fails its checks during build, the build ends with
\* that error and the build directory holds exactly what was copied before
\* the failing check: the files of the earlier components, nothing of a
\* later component or step, and no archive is made.
C28_FailedBuildKeepsEarlierFiles ==
    (BuildRan /\ disk.required /\ build.error.kind # "ok") =>
        LET failing == FirstFailing(TransformerPasses, Len(metadata.transformers))
            failing_fmt == FirstFailing(DbPasses, Len(metadata.formats))
        IN /\ fpkg = NoArchive
           /\ IF failing <= Len(metadata.transformers)
              THEN build.copied
                     = RequiredCopied \cup TreeCopied(disk.transformers)
                       \cup {PathOf(metadata.transformers[i].name, "fmx") :
                               i \in 1..(failing - 1)}
              ELSE /\ failing_fmt <= Len(metadata.formats)
                   /\ build.copied
                        = RequiredCopied \cup TreeCopied(disk.transformers)
                          \cup {PathOf(metadata.transformers[i].name, "fmx") :
                                  i \in 1..Len(metadata.transformers)}
                          \cup TreeCopied(disk.formats)
                          \cup UNION {FormatFilesCopied(j) : j \in 1..failing_fmt}

\* a build that failed on its second transformer, whose file is on disk,
\* after the file of the first was copied
C28_Witness ==
    /\ BuildRan
    /\ build.error.kind # "ok"
    /\ Len(metadata.transformers) >= 2
    /\ metadata.transformers[1].name # metadata.transformers[2].name
    /\ PathOf(metadata.transformers[1].name, "fmx") \in build.copied
    /\ disk.transformers[metadata.transformers[2].name].fmx.ext # ""
    /\ PathOf(metadata.transformers[2].name, "fmx") \notin build.copied

(***************************************************************************)
(* Properties of the key-value scan (SpecScan).                            *)
(***************************************************************************)
ScanDone == pc = "parsed_transformer"

TextLines == Split(fmx_text, "\n")

\* the lines of the text without their comments and surrounding whitespace
Codes == [i \in 1..Len(TextLines) |-> CodeOf(TextLines[i])]

\* the first TEMPLATE_START line, or one past the last line
StopLine(codes) ==
    IF \E i \in 1..Len(codes) : codes[i] = TEMPLATE_START
    THEN Min({i \in 1..Len(codes) : codes[i] = TEMPLATE_START})
    ELSE Len(codes) + 1

\* line i lies in a change log: the last sentinel before it is a start
InChangeLog(codes, i) ==
    /\ codes[i] \notin {CHANGE_LOG_START, CHANGE_LOG_END}
    /\ \E from \in 1..(i - 1) :
          /\ codes[from] = CHANGE_LOG_START
          /\ \A j \in (from + 1)..(i - 1) : codes[j] # CHANGE_LOG_END

\* what stands before the first colon of a line, and after it
KeyPart(code) == SubSeq(code, 1, FirstAt(code, ":") - 1)

ValuePart(code) == SubSeq(code, FirstAt(code, ":") + 1, Len(code))

\* a line of the shape KEY: value with a bare token for its key
BareKeyShape(code) ==
    /\ FirstAt(code, ":") > 1
    /\ KeyPart(code)[1] \in IdentifierStart
    /\ \A c \in 2..Len(KeyPart(code)) : KeyPart(code)[c] \in IdentifierStart \cup Digits

\* a line of that shape, its key possibly followed by whitespace other
\* than a blank
KeyShape(code) ==
    /\ FirstAt(code, ":") > 1
    /\ \A c \in 1..Len(KeyPart(code)) : KeyPart(code)[c] # " "
    /\ LET key == Strip(KeyPart(code))
       IN /\ key # <<>>
          /\ key[1] \in IdentifierStart
          /\ \A c \in 2..Len(key) : key[c] \in IdentifierStart \cup Digits

\* line i sets an entry as a key-value pair
SetsEntry(codes, i) ==
    /\ i < StopLine(codes)
    /\ codes[i] \notin {CHANGE_LOG_START, CHANGE_LOG_END}
    /\ ~InChangeLog(codes, i)
    /\ KeyShape(codes[i])

\* the lines that write the entry of a key: its key-value lines, and for
\* 'changes' the change log starts
Writers(codes, key) ==
    {i \in 1..(StopLine(codes) - 1) :
        \/ SetsEntry(codes, i) /\ Lower(Strip(KeyPart(codes[i]))) = key
        \/ key = Changes /\ codes[i] = CHANGE_LOG_START}

Last(indexes) == CHOOSE i \in indexes : \A j \in indexes : j <= i

\* the lines of a change log, each without its comment and surrounding
\* whitespace and followed by a line end
RECURSIVE Accumulated(_, _)
Accumulated(codes, indexes) ==
    IF indexes = <<>> THEN <<>>
    ELSE codes[Head(indexes)] \o <<"\n">> \o Accumulated(codes, Tail(indexes))

\* C30 as stated: nothing after the first TEMPLATE_START line contributes;
\* every line between a CHANGE_LOG_START line and the following
\* CHANGE_LOG_END line is in 'changes' verbatim; every other entry comes
\* from a line of the shape KEY: value with a bare-token key outside a
\* change log.
C30_ChangeLogVerbatim ==
    ScanDone =>
        LET lines == TextLines
            codes == Codes
            stop == StopLine(codes)
        IN /\ scan.result = parse_transformer(Join(SubSeq(lines, 1, stop - 1), "\n"))
           /\ \A from, to \in 1..(stop - 1) :
                 (/\ codes[from] = CHANGE_LOG_START
                  /\ codes[to] = CHANGE_LOG_END
                  /\ from < to
                  /\ \A j \in (from + 1)..(to - 1) : codes[j] # CHANGE_LOG_END)
                 => \A i \in (from + 1)..(to - 1) :
                       /\ Changes \in Keys(scan.result)
                       /\ Contains(ValueOf(scan.result, Changes), lines[i] \o <<"\n">>)
           /\ \A item \in scan.result :
                 item[1] # Changes =>
                     \E i \in 1..(stop - 1) :
                         /\ ~InChangeLog(codes, i)
                         /\ BareKeyShape(codes[i])
                         /\ Lower(KeyPart(codes[i])) = item[1]

\* C30 amended: the lines from the first TEMPLATE_START line on contribute
\* nothing.  Before it, a result entry exists exactly for 'changes' when
\* there is a CHANGE_LOG_START line and for the lower-cased key of every
\* line outside a change log of the shape KEY:value, the key an identifier
\* with no blank before the colon.  The entry holds what its last writer
\* left: the stripped value of a key-value line, None when that is empty,
\* or, for a CHANGE_LOG_START line, the lines that follow it up to the next
\* CHANGE_LOG_END or TEMPLATE_START line, each without its comment and
\* surrounding whitespace and followed by a line end; these lines are
\* never taken for key-value pairs.
C30_LastWriterDecides ==
    ScanDone =>
        LET codes == Codes
            stop == StopLine(codes)
        IN /\ \A i \in 1..(stop - 1) :
                 /\ SetsEntry(codes, i)
                       => Lower(Strip(KeyPart(codes[i]))) \in Keys(scan.result)
                 /\ codes[i] = CHANGE_LOG_START => Changes \in Keys(scan.result)
           /\ \A item \in scan.result :
                 /\ Writers(codes, item[1]) # {}
                 /\ \A other \in scan.result : other[1] = item[1] => other = item
                 /\ LET last == Last(Writers(codes, item[1]))
                    IN IF codes[last] = CHANGE_LOG_START
                       THEN item[2] = Accumulated(codes, Ascending(
                                {i \in (last + 1)..(stop - 1) : InChangeLog(codes, i)}))
                       ELSE item[2] = (IF Strip(ValuePart(codes[last])) = <<>> THEN None
                                       ELSE Strip(ValuePart(codes[last])))

\* a change log with a commented line of the shape of a key-value pair,
\* ended by TEMPLATE_START before a key-value line
C30_Witness ==
    /\ ScanDone
    /\ Len(TextLines) = 4
    /\ Codes[1] = CHANGE_LOG_START
    /\ InChangeLog(Codes, 2) /\ TextLines[2] # Codes[2] /\ KeyShape(Codes[2])
    /\ StopLine(Codes) = 3
    /\ KeyShape(Codes[4])
    /\ Keys(scan.result) = {Changes}
    /\ ValueOf(scan.result, Changes) # <<>>
====
